---- MODULE Spec2Model ----
(***************************************************************************)
(* Model of leagueofleagues_client.py: the supervisory connect/retry       *)
(* thread, the connector's event context (ready handler, push-event        *)
(* handlers, lobby-join coroutines), the UI/action context (register,      *)
(* join game, check status) and the Tk callback queue that links them.     *)
(*                                                                         *)
(* Python values are tagged records: PyNone, Str(s), Obj.  Text that the   *)
(* code parses or compares (names, tags, lobby owners, response bodies)    *)
(* is a sequence of one-character strings.                                 *)
(***************************************************************************)
EXTENDS Integers, Sequences, FiniteSets, TLC

\* ------------------------------------------------------------------ bounds
\* failed connector.start() calls the environment produces under Spec
MaxFailures == 1
\* menu commands the user triggers
MaxCommands == 1
\* join commands the user triggers under SpecFifo
MaxJoins == 2
\* lobbies in one reply of the lobby-listing call under SpecSeq
MaxLobbies == 3
\* characters in one /joinmatch reply under SpecParse, in one /otp reply
\* under SpecOtp
MaxBody == 4

\* ------------------------------------------------------- program constants
\* max_attempts of start_connector
max_attempts == 30

\* ------------------------------------------------------------ Python values
PyNone == [t |-> "none"]
Str(s) == [t |-> "str", v |-> s]
\* a JSON object that is not a string (an error body, a wrapped value)
Obj == [t |-> "obj"]

\* Python truthiness of None / str (text values)
Truthy(x) == x.t = "str" /\ x.v # <<>>

\* ------------------------------------------------------------------- text
LowerChar(c) ==
    CASE c = "A" -> "a"
      [] c = "N" -> "n"
      [] c = "B" -> "b"
      [] c = "E" -> "e"
      [] c = "U" -> "u"
      [] OTHER -> c

UpperChar(c) ==
    CASE c = "a" -> "A"
      [] c = "n" -> "N"
      [] c = "b" -> "B"
      [] c = "e" -> "E"
      [] c = "u" -> "U"
      [] OTHER -> c

\* str.lower()
Lower(s) == [i \in 1..Len(s) |-> LowerChar(s[i])]
\* str.upper()
Upper(s) == [i \in 1..Len(s) |-> UpperChar(s[i])]
\* str.startswith(p)
StartsWith(s, p) == Len(p) <= Len(s) /\ SubSeq(s, 1, Len(p)) = p
\* index of the first occurrence of character c in s, 0 when absent
IndexOf(s, c) ==
    IF \E i \in 1..Len(s) : s[i] = c
    THEN CHOOSE i \in 1..Len(s) : s[i] = c /\ \A j \in 1..(i-1) : s[j] # c
    ELSE 0
\* str.split(c, 1): one part when c is absent, else the text before and after
SplitFirst(s, c) ==
    IF IndexOf(s, c) = 0 THEN <<s>>
    ELSE <<SubSeq(s, 1, IndexOf(s, c) - 1), SubSeq(s, IndexOf(s, c) + 1, Len(s))>>
\* str.strip() for the blank character
RECURSIVE LStrip(_)
LStrip(s) == IF s # <<>> /\ Head(s) = " " THEN LStrip(Tail(s)) ELSE s
RECURSIVE RStrip(_)
RStrip(s) == IF s # <<>> /\ s[Len(s)] = " " THEN RStrip(SubSeq(s, 1, Len(s) - 1)) ELSE s
Strip(s) == RStrip(LStrip(s))

\* ------------------------------------------------- local endpoint replies
NoResp == [k |-> "none"]
\* the request (or resp.json()) raised
Exc == [k |-> "exc"]
Ok(status, json) == [k |-> "ok", status |-> status, json |-> json]

NameA == <<"A", "n">>
TagA == <<"1">>
NameB == <<"B", "o">>
TagB == <<"2">>

PhaseJson == {Str("Lobby"), Str("InProgress")}
PhaseResponses == {Exc} \cup {Ok(200, j) : j \in PhaseJson}

SummonerJson ==
    { [gameName |-> Str(NameA), tagLine |-> Str(TagA)],
      [gameName |-> Str(NameA), tagLine |-> PyNone],
      [gameName |-> Str(NameB), tagLine |-> Str(TagB)],
      [gameName |-> PyNone, tagLine |-> PyNone] }
SummonerResponses == {Exc, Ok(404, Obj)} \cup {Ok(200, d) : d \in SummonerJson}

\* region-locale bodies
RegionJson == [region : {Str(<<"e", "u">>), Str(<<"N", "A">>)}]
RegionResponses == {Exc, Ok(404, Obj)} \cup {Ok(200, d) : d \in RegionJson}

\* dict.get(key, default) on a field that may be missing
GetOr(x, default) == IF x = PyNone THEN default ELSE x

\* region_data.get('region', '').upper()
RegionOf(region_data) == Str(Upper(GetOr(region_data.region, Str(<<>>)).v))

\* an empty JSON object
EmptyDict == [t |-> "empty"]

\* push-event payloads held by the full system: an empty one, a partial
\* identity, a complete one; a string phase and a payload that is none
SmallIdentityEvents ==
    { PyNone,
      [gameName |-> Str(NameA), tagLine |-> PyNone],
      [gameName |-> Str(NameB), tagLine |-> Str(TagB)] }
SmallPhaseEvents == {Str("Lobby"), PyNone}

\* replies of the local endpoints held by the full system: a request that
\* raises and one 200 reply for the phase, a complete and a partial identity,
\* a region
SmallPhaseResponses == {Exc, Ok(200, Str("InProgress"))}
SmallSummonerResponses ==
    {Exc, Ok(200, [gameName |-> Str(NameA), tagLine |-> Str(TagA)]),
     Ok(200, [gameName |-> Str(NameA), tagLine |-> PyNone])}
SmallRegionResponses == {Exc, Ok(200, [region |-> Str(<<"e", "u">>)])}

\* push-event payloads
SummonerEventData == {PyNone, EmptyDict} \cup SummonerJson
PhaseEventData == PhaseJson \cup {PyNone, Obj}

\* --------------------------------------------------- lobby matching (380-397)
\* a lobby descriptor: its id and its ownerDisplayName (PyNone: key missing)
Lobby(id, owner) == [id |-> id, ownerDisplayName |-> owner]

\* g.get('ownerDisplayName', '')
OwnerOf(g) == GetOr(g.ownerDisplayName, Str(<<>>)).v

\* target_full = f"{summoner} #{tag}"
target_full(summoner, tag) == summoner \o <<" ", "#">> \o tag

\* g.get('ownerDisplayName', '').lower() == target_full.lower()
\* (IsExactOff: the comparison without .lower(), a faulty variant)
IsExactOff(g, summoner, tag) == OwnerOf(g) = target_full(summoner, tag)
IsExact(g, summoner, tag) == Lower(OwnerOf(g)) = Lower(target_full(summoner, tag))

\* g.get('ownerDisplayName', '').lower().startswith(summoner.lower() + '#')
IsPrefix(g, summoner) == StartsWith(Lower(OwnerOf(g)), Lower(summoner) \o <<"#">>)

\* next((g for g in games if ...), None): index of the first hit, 0 for None
FirstExact(games, summoner, tag) ==
    IF \E i \in 1..Len(games) : IsExact(games[i], summoner, tag)
    THEN CHOOSE i \in 1..Len(games) :
           /\ IsExact(games[i], summoner, tag)
           /\ \A j \in 1..(i-1) : ~IsExact(games[j], summoner, tag)
    ELSE 0

FirstPrefix(games, summoner) ==
    IF \E i \in 1..Len(games) : IsPrefix(games[i], summoner)
    THEN CHOOSE i \in 1..Len(games) :
           /\ IsPrefix(games[i], summoner)
           /\ \A j \in 1..(i-1) : ~IsPrefix(games[j], summoner)
    ELSE 0

\* the lobby do_join_lobby settles on: exact first, prefix only without one
\* (FindMatchPrefixFirst: the prefix search first, a faulty variant)
FindMatchPrefixFirst(games, summoner, tag) ==
    IF FirstPrefix(games, summoner) # 0
    THEN FirstPrefix(games, summoner)
    ELSE FirstExact(games, summoner, tag)
FindMatch(games, summoner, tag) ==
    IF FirstExact(games, summoner, tag) # 0
    THEN FirstExact(games, summoner, tag)
    ELSE FirstPrefix(games, summoner)

\* ------------------------------------------------ remote backend replies
\* GET /auth: "User not found" is the marker of a Discord ID that is not
\* registered (249)
UserNotFound == <<"U", "s", "e", "r", " ", "n", "o", "t", " ", "f", "o", "u", "n", "d">>
AuthResponses ==
    {Exc, Ok(200, <<"o", "k">>), Ok(200, UserNotFound), Ok(204, <<>>),
     Ok(404, <<"\"">> \o UserNotFound \o <<"\"">>), Ok(404, <<"n", "o">>), Ok(500, <<>>)}

\* sub in text
Contains(text, sub) ==
    \E i \in 0..(Len(text) - Len(sub)) : SubSeq(text, i + 1, i + Len(sub)) = sub

\* authenticate (242-256): the value it returns for a reply of /auth
\* (authenticateOff: any 2xx status accepted, a faulty variant)
authenticateOff(r) == r.k = "ok" /\ r.status \in 200..299
authenticate(r) ==
    IF r.k = "exc" THEN FALSE
    ELSE IF r.status = 404 /\ Contains(r.json, UserNotFound) THEN FALSE
    ELSE r.status = 200

\* GET /otp: the text of the reply
OtpResponses ==
    {Exc, Ok(200, <<" ", "7", " ">>), Ok(200, <<" ">>), Ok(200, <<>>), Ok(403, <<"n", "o">>)}

\* every /otp reply with a body of up to MaxBody characters over a digit and
\* a blank
OtpBodies == UNION {[1..n -> {"7", " "}] : n \in 0..MaxBody}
RichOtpResponses == {Exc} \cup {Ok(st, b) : st \in {200, 403}, b \in OtpBodies}

\* GET /joinmatch: the text of the reply
JoinBodyGood == <<"A", "n", "#", "1", ",", "p">>
JoinBodyNoComma == <<"A", "n", "#", "1">>
JoinBodyNoHash == <<"A", "n", ",", "p">>
JoinResponses ==
    {Exc, Ok(200, JoinBodyGood), Ok(200, JoinBodyNoComma), Ok(200, JoinBodyNoHash),
     Ok(200, <<>>), Ok(404, <<"n", "o">>)}

\* every /joinmatch body of up to MaxBody characters over a letter, the two
\* separators and a blank
BodyChars == {"A", "#", ",", " "}
RichBodies == UNION {[1..n -> BodyChars] : n \in 0..MaxBody}
ParseResponses == {Exc, Ok(404, <<"n", "o">>)} \cup {Ok(200, b) : b \in RichBodies}

\* what the user types into the "Enter Summoner Info" prompt (None: cancelled)
ManualInputs == {PyNone, Str(<<"A", "n">>), Str(<<" ", "A", "n", "#", "1", " ">>)}

\* ---------------------------------------------- lobby endpoint replies
\* replies of GET /lol-lobby/v2/lobby/custom/available held by the full system
SmallLists ==
    { <<>>,
      <<Lobby(1, Str(<<"A", "n", "#", "1", "x">>)), Lobby(2, Str(<<"a", "n", " ", "#", "1">>))>>,
      <<Lobby(1, Str(<<"B", "o", " ", "#", "1">>))>> }

\* owner texts of the join sequencer's inputs; PyNone: the key is missing
OwnerTexts ==
    { PyNone,
      Str(<<>>),
      Str(<<"A", "n", " ", "#", "1">>),
      Str(<<"a", "N", " ", "#", "1">>),
      Str(<<"A", "n", "#", "1">>),
      Str(<<"a", "n", "#", "1", "x">>),
      Str(<<"A", "n", " ", "#", "2">>),
      Str(<<"A", "n">>),
      Str(<<"#", "1">>),
      Str(<<" ", "#", "1">>) }

\* every list of at most MaxLobbies lobbies; a lobby's id is its position
RichLists ==
    UNION { { [i \in 1..n |-> Lobby(i, f[i])] : f \in [1..n -> OwnerTexts] } : n \in 0..MaxLobbies }

\* replies of the lobby-listing call under SpecJoin: those of the full system
\* and every list of one lobby
JoinLists == SmallLists \cup { <<Lobby(1, o)>> : o \in OwnerTexts }

\* the (summoner, tag) targets of the join sequencer's inputs
SeqTargets == { <<<<"A", "n">>, <<"1">>>>, <<<<"a", "n">>, <<"1">>>>, <<<<>>, <<"1">>>> }

GamesResponses(lists) == {Exc} \cup {Ok(200, g) : g \in lists}

\* replies of POST .../join: success, an error body with or without "message"
JoinLobbyResponses ==
    {Exc, Ok(200, Obj), Ok(500, [message |-> Str("full")]), Ok(500, [message |-> PyNone])}

\* ----------------------------------------------------------- UI records
\* a dialog shown by show_dialog
Dialog(type, what, msg) == [type |-> type, what |-> what, msg |-> msg]

Report(cs, c, d) == [cs EXCEPT ![c].outcomes = Append(@, d)]

\* connector = Connector() (922) and root (913) are set before any thread runs
ConnectorAndRoot == TRUE

\* the one handle the program constructs: connector = Connector() (922);
\* nothing assigns the global again
connector == "Connector()@main"

VARIABLES
    \* start_connector (supervisory thread): position, attempts, and the number
    \* of "Failed to connect ... after multiple attempts" reports
    supPc, attempts, exhaustReports,
    \* main's authentication at launch (925-938): the credential it found
    \* stored, the /auth reply and what authenticate returned
    launch,
    \* the handles connector.start() has been called on so far, in call order
    started,
    \* the build of the Tcl behind tkinter: thread-enabled (tcl_platform(threaded),
    \* the build of the CPython distributions) or not; fixed for a run
    tcl_threaded,
    \* connector._connection as the code reaches it: "none" | "live" | "closed"
    conn,
    \* global application state (Session State)
    is_ready, current_phase, summoner_name, summoner_tag, region,
    \* coroutines of the connector's event loop: the ready handler and the two
    \* push-event handlers, each a position and the local or reply it holds;
    \* "changed" records whether this invocation found a complete identity
    \* and writes a different one, "later" the payload of an event that was
    \* delivered and handled while this invocation awaits a reply
    hs, sm, ph,
    \* the UI/action context: the running menu command, the calls on the main
    \* thread that are inside the Tk event loop (the menu command, and each
    \* show_dialog a Tk callback made), innermost last, the commands so far,
    \* the stored credential (settings.cfg)
    ui, uiStack, cmds, config,
    \* callbacks posted with root.after, and the do_join_lobby tasks
    tkQueue, jobs

sup == <<supPc, attempts, exhaustReports, launch, started, tcl_threaded>>
session == <<is_ready, current_phase, summoner_name, summoner_tag, region>>
coros == <<hs, sm, ph>>
uictx == <<ui, uiStack, cmds, config>>
joinctx == <<tkQueue, jobs>>

vars == <<supPc, attempts, exhaustReports, launch, started, tcl_threaded, conn,
          is_ready, current_phase, summoner_name, summoner_tag, region,
          hs, sm, ph, ui, uiStack, cmds, config, tkQueue, jobs>>

Idle == [pc |-> "idle", resp |-> NoResp, changed |-> FALSE, later |-> PyNone]
At(pc, resp) == [pc |-> pc, resp |-> resp, changed |-> FALSE, later |-> PyNone]
Writing(pc, resp, changed) == [pc |-> pc, resp |-> resp, changed |-> changed, later |-> PyNone]
UiIdle == [pc |-> "idle", c |-> 0, tmp |-> PyNone]
UiAt(pc, c, tmp) == [pc |-> pc, c |-> c, tmp |-> tmp]

\* the process runs until os._exit of quit_application (633)
Running == ui.pc # "exited"

\* calls on the main thread that are inside the Tk event loop: menu command c,
\* and show_dialog called by a Tk callback with dialog d for command c
Frame(f, c, d) == [f |-> f, c |-> c, d |-> d]
Pop(s) == SubSeq(s, 1, Len(s) - 1)

\* the menu command is the innermost call: what it entered has returned
MenuRuns == uiStack # <<>> /\ uiStack[Len(uiStack)].f = "menu"

\* the main thread is in an event loop, where Tk callbacks run: the tray
\* loop (981), a prompt or a box, root.update() of show_dialog (132); between
\* two statements of a command (286-294) it is not
MainYields ==
    \/ uiStack # <<>> /\ uiStack[Len(uiStack)].f = "dialog"
    \/ ui.pc \in {"idle", "reg_manual", "reg_otp", "join_pwd", "show_dialog", "quit_confirm"}

\* one menu command: whether the connection was live when its menu entry
\* fired, the password was supplied, requests made for it (remote backend,
\* lobby list GET, join POST), the remote reply it got and the dialogs
\* reporting its outcome
NewCmd(kind) ==
    [kind |-> kind, live |-> conn = "live", pwd |-> FALSE, remote |-> 0,
     gets |-> 0, posts |-> 0, reply |-> NoResp, outcomes |-> <<>>]

\* the identity in Session State is complete and data carries another one
Replaces(data) ==
    /\ Truthy(summoner_name)
    /\ Truthy(summoner_tag)
    /\ (data.gameName # summoner_name \/ data.tagLine # summoner_tag)

\* no credential was stored at launch: authenticate is not called (929)
NoLaunch == [stored |-> PyNone, reply |-> NoResp, auth_success |-> PyNone]

Init ==
    /\ supPc = "loop"
    /\ attempts = 0
    /\ exhaustReports = 0
    /\ launch = NoLaunch
    /\ started = <<>>
    /\ tcl_threaded \in BOOLEAN
    /\ conn = "none"
    /\ is_ready = FALSE
    /\ current_phase = PyNone
    /\ summoner_name = PyNone
    /\ summoner_tag = PyNone
    /\ region = PyNone
    /\ hs = Idle
    /\ sm = Idle
    /\ ph = Idle
    /\ ui = UiIdle
    /\ uiStack = <<>>
    /\ cmds = <<>>
    /\ config = PyNone
    /\ tkQueue = <<>>
    /\ jobs = <<>>

\* ------------------------------------------------ main at launch (925-965)
\* load_config, and with a stored credential authenticate(raw_id): a false
\* result deletes the stored credential (936).  Then the connector thread is
\* started (965).  No other thread runs before that.
MainAuth ==
    /\ Running
    /\ supPc = "main"
    /\ supPc' = "loop"
    /\ IF Truthy(config)
       THEN \E r \in AuthResponses :
              /\ launch' = [stored |-> config, reply |-> r, auth_success |-> authenticate(r)]
              /\ config' = IF authenticate(r) THEN config ELSE PyNone
       ELSE /\ launch' = NoLaunch
            /\ UNCHANGED config
    /\ UNCHANGED <<attempts, exhaustReports, started, tcl_threaded, conn, session, coros, ui, uiStack, cmds, joinctx>>

\* ------------------------------------------------ start_connector (941-962)
\* while attempts < max_attempts (LoopContinuesOff: the off-by-one variant)
LoopContinuesOff(a) == a <= max_attempts
LoopContinues(a) == a < max_attempts

\* the while test: enter the body and call connector.start() (950), on the
\* handle the global names, or leave the loop
SupLoop ==
    /\ Running
    /\ supPc = "loop"
    /\ supPc' = IF LoopContinues(attempts) THEN "start" ELSE "after"
    /\ started' = IF LoopContinues(attempts) THEN Append(started, connector) ELSE started
    /\ UNCHANGED <<launch, attempts, exhaustReports, tcl_threaded, conn, session, coros, uictx, joinctx>>

\* connector.start() raises: attempts += 1, then sleep(10).  The environment
\* lets it fail while attempts < limit.
SupStartFails(limit) ==
    /\ Running
    /\ supPc = "start"
    /\ attempts < limit
    /\ attempts' = attempts + 1
    /\ supPc' = "sleep"
    /\ UNCHANGED <<launch, started, tcl_threaded, exhaustReports, conn, session, coros, uictx, joinctx>>

\* time.sleep(10) ends, back to the while test
SupWake ==
    /\ Running
    /\ supPc = "sleep"
    /\ supPc' = "loop"
    /\ UNCHANGED <<launch, started, tcl_threaded, attempts, exhaustReports, conn, session, coros, uictx, joinctx>>

\* connector.start() finds the client: the connection is registered, the event
\* loop runs and the ready handler is invoked; start() blocks while it lasts
SupStartConnects ==
    /\ Running
    /\ supPc = "start"
    /\ conn = "none"
    /\ supPc' = "connected"
    /\ conn' = "live"
    /\ hs' = At("invoked", NoResp)
    /\ UNCHANGED <<launch, started, tcl_threaded, attempts, exhaustReports, session, sm, ph, uictx, joinctx>>

\* the transport drops: the event loop stops, start() returns, break (952).
\* The program registers no handler for it: Session State is left as it is.
Drop ==
    /\ Running
    /\ supPc = "connected"
    /\ conn = "live"
    /\ conn' = "closed"
    /\ supPc' = "after"
    /\ UNCHANGED <<launch, started, tcl_threaded, attempts, exhaustReports, session, coros, uictx, joinctx>>

\* if attempts >= max_attempts: print("Failed to connect ...") (958-959)
ReportsExhaustion(a) == a >= max_attempts

SupAfterLoop ==
    /\ Running
    /\ supPc = "after"
    /\ exhaustReports' = IF ReportsExhaustion(attempts) THEN exhaustReports + 1 ELSE exhaustReports
    /\ supPc' = "done"
    /\ UNCHANGED <<launch, started, tcl_threaded, attempts, conn, session, coros, uictx, joinctx>>

\* except Exception (817, 843, 852, 873, 896, 901): the failure of an awaited
\* request is caught inside the handler, which goes on at the position after
\* its try statement
\* (ExceptExceptionOff: the failure unwinds the handler, a faulty variant)
ExceptExceptionOff(r, next) == IF r.k = "exc" THEN "raised" ELSE next
ExceptException(r, next) == next

\* ------------------------------------ ready handler connect (806-822) and
\* fetch_summoner_info (879-903)
\* is_ready = True (810), then the initial phase request is awaited
HsBeginOn(phases) ==
    /\ Running
    /\ conn = "live"
    /\ hs.pc = "invoked"
    /\ is_ready' = TRUE
    /\ \E r \in phases : hs' = At("await_phase", r)
    /\ UNCHANGED <<sup, conn, current_phase, summoner_name, summoner_tag, region, sm, ph, uictx, joinctx>>

HsBegin == HsBeginOn(PhaseResponses)

\* the phase reply: current_phase = await resp.json(), None on an exception;
\* then fetch_summoner_info awaits the current-summoner request
HsPhaseOn(summoners) ==
    /\ Running
    /\ conn = "live"
    /\ hs.pc = "await_phase"
    /\ current_phase' = IF hs.resp.k = "exc" THEN PyNone ELSE hs.resp.json
    /\ \E r \in summoners :
         hs' = At(ExceptException(hs.resp, "await_summoner"), r)
    /\ UNCHANGED <<sup, conn, is_ready, summoner_name, summoner_tag, region, sm, ph, uictx, joinctx>>

HsPhase == HsPhaseOn(SummonerResponses)

\* the current-summoner reply: on status 200 summoner_name is written (887)
HsSummoner ==
    /\ Running
    /\ conn = "live"
    /\ hs.pc = "await_summoner"
    /\ IF hs.resp.k = "ok" /\ hs.resp.status = 200
       THEN /\ summoner_name' = hs.resp.json.gameName
            /\ hs' = Writing("set_tag", hs.resp.json, Replaces(hs.resp.json))
       ELSE /\ hs' = At(ExceptException(hs.resp, "done"), NoResp)
            /\ UNCHANGED summoner_name
    /\ UNCHANGED <<sup, conn, is_ready, current_phase, summoner_tag, region, sm, ph, uictx, joinctx>>

\* summoner_tag is written (888), then the region request is awaited (892)
HsTagOn(regions) ==
    /\ Running
    /\ conn = "live"
    /\ hs.pc = "set_tag"
    /\ summoner_tag' = hs.resp.tagLine
    /\ \E r \in regions :
         hs' = Writing("await_region", r, hs.changed)
    /\ UNCHANGED <<sup, conn, is_ready, current_phase, summoner_name, region, sm, ph, uictx, joinctx>>

HsTag == HsTagOn(RegionResponses)

\* the region reply: region is written on status 200 only (893-897)
HsRegion ==
    /\ Running
    /\ conn = "live"
    /\ hs.pc = "await_region"
    /\ region' = IF hs.resp.k = "ok" /\ hs.resp.status = 200
                 THEN RegionOf(hs.resp.json) ELSE region
    /\ hs' = At(ExceptException(hs.resp, "done"), NoResp)
    /\ UNCHANGED <<sup, conn, is_ready, current_phase, summoner_name, summoner_tag, sm, ph, uictx, joinctx>>

\* ------------------------------------------- on_summoner_update (824-857)
\* an UPDATE/CREATE event arrives, the ready handler having returned (the
\* connection dispatches push events once its ready handlers have run): the
\* handler is invoked with the event
SmEventOn(datas) ==
    /\ Running
    /\ conn = "live"
    /\ hs.pc = "done"
    /\ sm.pc = "idle"
    /\ \E data \in datas : sm' = At("invoked", data)
    /\ UNCHANGED <<sup, conn, session, hs, ph, uictx, joinctx>>

SmEvent == SmEventOn(SummonerEventData)

\* if event.data: (830), false for None and for an empty object
HasData(data) == data \notin {PyNone, EmptyDict}

\* without data the handler returns; otherwise summoner_name is written from
\* the event (831)
SmRun ==
    /\ Running
    /\ conn = "live"
    /\ sm.pc = "invoked"
    /\ IF HasData(sm.resp)
       THEN /\ summoner_name' = sm.resp.gameName
            /\ sm' = Writing("set_tag", sm.resp, Replaces(sm.resp))
       ELSE /\ sm' = Idle
            /\ UNCHANGED summoner_name
    /\ UNCHANGED <<sup, conn, is_ready, current_phase, summoner_tag, region, hs, ph, uictx, joinctx>>

\* if not summoner_name or not summoner_tag (834)
\* (NeedsRefetchOff: the name alone tested, a faulty variant)
NeedsRefetchOff(name, tag) == ~Truthy(name)
NeedsRefetch(name, tag) == ~Truthy(name) \/ ~Truthy(tag)

\* summoner_tag is written from the event (832); with a name or tag missing
\* the current-summoner request is awaited (838), else the region request (848)
SmTagOn(summoners, regions) ==
    /\ Running
    /\ conn = "live"
    /\ sm.pc = "set_tag"
    /\ summoner_tag' = sm.resp.tagLine
    /\ IF NeedsRefetch(summoner_name, summoner_tag')
       THEN \E r \in summoners : sm' = At("await_refetch", r)
       ELSE \E r \in regions :
              sm' = Writing("await_region", r, sm.changed)
    /\ UNCHANGED <<sup, conn, is_ready, current_phase, summoner_name, region, hs, ph, uictx, joinctx>>

SmTag == SmTagOn(SummonerResponses, RegionResponses)

\* the re-fetch reply: on status 200 summoner_name is written (841); on any
\* other outcome the handler goes on to the region request
SmRefetchOn(regions) ==
    /\ Running
    /\ conn = "live"
    /\ sm.pc = "await_refetch"
    /\ IF sm.resp.k = "ok" /\ sm.resp.status = 200
       THEN /\ summoner_name' = sm.resp.json.gameName
            /\ sm' = At("set_tag2", sm.resp.json)
       ELSE /\ \E rr \in regions :
                 sm' = At(ExceptException(sm.resp, "await_region"), rr)
            /\ UNCHANGED summoner_name
    /\ UNCHANGED <<sup, conn, is_ready, current_phase, summoner_tag, region, hs, ph, uictx, joinctx>>

SmRefetch == SmRefetchOn(RegionResponses)

\* summoner_tag is written from the re-fetched data (842), then the region
\* request is awaited
SmTag2On(regions) ==
    /\ Running
    /\ conn = "live"
    /\ sm.pc = "set_tag2"
    /\ summoner_tag' = sm.resp.tagLine
    /\ \E r \in regions : sm' = At("await_region", r)
    /\ UNCHANGED <<sup, conn, is_ready, current_phase, summoner_name, region, hs, ph, uictx, joinctx>>

SmTag2 == SmTag2On(RegionResponses)

\* if region_resp.status == 200: region = region_data.get('region', '').upper()
\* (849-851), nothing assigned otherwise or when the request raises (852)
\* (RegionOnReplyOff: the region cleared on a failure, a faulty variant)
RegionOnReplyOff(r, previous) ==
    IF r.k = "ok" /\ r.status = 200 THEN RegionOf(r.json) ELSE PyNone
RegionOnReply(r, previous) ==
    IF r.k = "ok" /\ r.status = 200 THEN RegionOf(r.json) ELSE previous

\* the region reply (849-853)
SmRegion ==
    /\ Running
    /\ conn = "live"
    /\ sm.pc = "await_region"
    /\ region' = RegionOnReply(sm.resp, region)
    /\ sm' = At(ExceptException(sm.resp, "idle"), NoResp)
    /\ UNCHANGED <<sup, conn, is_ready, current_phase, summoner_name, summoner_tag, hs, ph, uictx, joinctx>>

\* -------------------------------------------- on_gameflow_phase (859-875)
\* a phase event arrives, the ready handler having returned: the handler is
\* invoked with the event
PhEventOn(datas) ==
    /\ Running
    /\ conn = "live"
    /\ hs.pc = "done"
    /\ ph.pc = "idle"
    /\ \E data \in datas : ph' = At("invoked", data)
    /\ UNCHANGED <<sup, conn, session, hs, sm, uictx, joinctx>>

PhEvent == PhEventOn(PhaseEventData)

\* isinstance(event.data, str) (862)
\* (IsStrOff: anything but None taken for a string, a faulty variant)
IsStrOff(data) == data # PyNone
IsStr(data) == data.t = "str"

\* a string payload is the phase (863), anything else awaits a request of
\* the phase endpoint (866)
PhRunOn(phases) ==
    /\ Running
    /\ conn = "live"
    /\ ph.pc = "invoked"
    /\ IF IsStr(ph.resp)
       THEN current_phase' = ph.resp /\ ph' = Idle
       ELSE /\ \E r \in phases : ph' = At("await_phase", r)
            /\ UNCHANGED current_phase
    /\ UNCHANGED <<sup, conn, is_ready, summoner_name, summoner_tag, region, hs, sm, uictx, joinctx>>

PhRun == PhRunOn(PhaseResponses)

\* current_phase = await resp.json() (869), current_phase = None in the
\* except clause (875)
\* (PhaseOnReplyOff: the previous phase kept on a failure, a faulty variant)
PhaseOnReplyOff(r, previous) == IF r.k = "exc" THEN previous ELSE r.json
PhaseOnReply(r, previous) == IF r.k = "exc" THEN PyNone ELSE r.json

\* the phase reply: current_phase = await resp.json() (867), None on an
\* exception (875)
PhPhase ==
    /\ Running
    /\ conn = "live"
    /\ ph.pc = "await_phase"
    /\ current_phase' = PhaseOnReply(ph.resp, current_phase)
    /\ ph' = At(ExceptException(ph.resp, "idle"), NoResp)
    /\ UNCHANGED <<sup, conn, is_ready, summoner_name, summoner_tag, region, hs, sm, uictx, joinctx>>

\* a later phase event with a string payload arrives while an earlier
\* invocation awaits its re-fetch (868).  The handler is a coroutine function
\* and nothing in it waits for an earlier invocation: the new invocation
\* assigns current_phase (865) and returns without an await, so it runs as
\* one step of the event loop.
PhLaterOn(datas) ==
    /\ Running
    /\ conn = "live"
    /\ hs.pc = "done"
    /\ ph.pc = "await_phase"
    /\ \E data \in datas :
         /\ current_phase' = data
         /\ ph' = [ph EXCEPT !.later = data]
    /\ UNCHANGED <<sup, conn, is_ready, summoner_name, summoner_tag, region, hs, sm, uictx, joinctx>>

\* ------------------------------------------------ register_action (261-318)
\* the menu entry fires (the tray menu runs once main has started the
\* connector thread, 981): the is_ready guard (266) with the call of
\* show_dialog (267), then the identity check (271)
RegisterAction ==
    /\ Running
    /\ supPc # "main"
    /\ ui.pc = "idle"
    /\ Len(cmds) < MaxCommands
    /\ cmds' = Append(cmds, NewCmd("register"))
    /\ uiStack' = Append(uiStack, Frame("menu", Len(cmds) + 1, PyNone))
    /\ ui' = IF ~is_ready
             THEN UiAt("show_dialog", Len(cmds) + 1, Dialog("error", "Not Ready", PyNone))
             ELSE UiAt(IF ~Truthy(summoner_name) \/ ~Truthy(summoner_tag)
                       THEN "reg_manual" ELSE "reg_display", Len(cmds) + 1, PyNone)
    /\ UNCHANGED <<sup, conn, session, coros, config, joinctx>>

\* the yes/no dialog and the manual entry (273-289): a valid "Name#Tag" is
\* split on the first '#' and summoner_name is written (286); anything else
\* calls show_dialog (283)
RegManual ==
    /\ Running
    /\ ui.pc = "reg_manual"
    /\ MenuRuns
    /\ \E yes \in BOOLEAN, info \in ManualInputs :
         IF ~yes
         THEN /\ ui' = UiIdle
              /\ UNCHANGED summoner_name
         ELSE IF ~Truthy(info) \/ IndexOf(info.v, "#") = 0
         THEN /\ ui' = UiAt("show_dialog", ui.c, Dialog("error", "Invalid Format", PyNone))
              /\ UNCHANGED summoner_name
         ELSE /\ summoner_name' = Str(Strip(SplitFirst(info.v, "#")[1]))
              /\ ui' = UiAt("reg_set_tag", ui.c, Str(Strip(SplitFirst(info.v, "#")[2])))
    /\ uiStack' = IF ui'.pc = "idle" THEN Pop(uiStack) ELSE uiStack
    /\ UNCHANGED <<sup, conn, is_ready, current_phase, summoner_tag, region, coros, cmds, config, joinctx>>

\* summoner_tag = parts[1].strip() (287)
RegSetTag ==
    /\ Running
    /\ ui.pc = "reg_set_tag"
    /\ MenuRuns
    /\ summoner_tag' = ui.tmp
    /\ ui' = UiAt("reg_display", ui.c, PyNone)
    /\ UNCHANGED <<sup, conn, is_ready, current_phase, summoner_name, region, coros, uiStack, cmds, config, joinctx>>

\* display = f"{summoner_name}#{summoner_tag}", plus f",{region}" if region
\* (292-294): the three globals as read
RegDisplay ==
    /\ Running
    /\ ui.pc = "reg_display"
    /\ MenuRuns
    /\ ui' = UiAt("reg_otp", ui.c,
                  [name |-> summoner_name, tag |-> summoner_tag,
                   region |-> IF Truthy(region) THEN region ELSE PyNone])
    /\ UNCHANGED <<sup, conn, session, coros, uiStack, cmds, config, joinctx>>

\* resp.status_code == 200 and resp.text.strip() (311)
\* (OtpAcceptedOff: the status alone, a faulty variant)
OtpAcceptedOff(r) == r.status = 200
OtpAccepted(r) == r.status = 200 /\ Strip(r.json) # <<>>

\* show_dialog (123-150) called by a menu command as its last statement:
\* root.update() (132) has returned to the Tk event loop, where the callbacks
\* that are due ran and the calls they made have returned; the box opens
\* (138-143) and the command returns
ShowDialog ==
    /\ Running
    /\ ui.pc = "show_dialog"
    /\ MenuRuns
    /\ ui' = UiIdle
    /\ uiStack' = Pop(uiStack)
    /\ cmds' = Report(cmds, ui.c, ui.tmp)
    /\ UNCHANGED <<sup, conn, session, coros, config, joinctx>>

\* the code prompt (297-304), the /otp request (308), save_config of an
\* accepted reply (312) and the call of show_dialog with the outcome
\* (313-318)
RegOtpOn(resps) ==
    /\ Running
    /\ ui.pc = "reg_otp"
    /\ MenuRuns
    /\ \E given \in BOOLEAN, r \in resps :
         IF ~given
         THEN /\ ui' = UiIdle
              /\ UNCHANGED <<cmds, config>>
         ELSE /\ cmds' = [cmds EXCEPT ![ui.c].remote = @ + 1, ![ui.c].reply = r]
              /\ IF r.k = "exc"
                 THEN /\ ui' = UiAt("show_dialog", ui.c, Dialog("error", "Error", PyNone))
                      /\ UNCHANGED config
                 ELSE IF OtpAccepted(r)
                 THEN /\ config' = Str(Strip(r.json))
                      /\ ui' = UiAt("show_dialog", ui.c, Dialog("info", "Registered", PyNone))
                 ELSE /\ ui' = UiAt("show_dialog", ui.c,
                                     Dialog("error", "Registration Failed", PyNone))
                      /\ UNCHANGED config
    /\ uiStack' = IF ui'.pc = "idle" THEN Pop(uiStack) ELSE uiStack
    /\ UNCHANGED <<sup, conn, session, coros, joinctx>>

RegOtp == RegOtpOn(OtpResponses)

\* ------------------------------------------- check_status_action (432-446)
\* the status text is built from the globals as read (434-445), then
\* show_dialog is called with it (446)
CheckStatusAction ==
    /\ Running
    /\ supPc # "main"
    /\ ui.pc = "idle"
    /\ Len(cmds) < MaxCommands
    /\ cmds' = Append(cmds, NewCmd("status"))
    /\ uiStack' = Append(uiStack, Frame("menu", Len(cmds) + 1, PyNone))
    /\ ui' = UiAt("show_dialog", Len(cmds) + 1,
                  Dialog("info", "League of Leagues Status",
                     [connected |-> is_ready,
                      summoner |-> <<summoner_name,
                                     IF Truthy(summoner_name) /\ Truthy(summoner_tag)
                                     THEN summoner_tag ELSE Str(<<"?">>)>>,
                      region |-> IF Truthy(region) THEN region ELSE Str(<<"?">>),
                      registered |-> Truthy(config)]))
    /\ UNCHANGED <<sup, conn, session, coros, config, joinctx>>

\* ---------------------------------------------- join_game_action (320-365)
\* if not is_ready or current_phase is None (325)
\* (JoinGuardFailsOff: is_ready alone tested, a faulty variant)
JoinGuardFailsOff == ~is_ready
JoinGuardFails == ~is_ready \/ current_phase = PyNone

\* the menu entry fires: the guard on is_ready and current_phase (325) with
\* the call of show_dialog (326); the user triggers up to n commands
JoinGameActionUpTo(n) ==
    /\ Running
    /\ supPc # "main"
    /\ ui.pc = "idle"
    /\ Len(cmds) < n
    /\ cmds' = Append(cmds, NewCmd("join"))
    /\ uiStack' = Append(uiStack, Frame("menu", Len(cmds) + 1, PyNone))
    /\ ui' = IF JoinGuardFails
             THEN UiAt("show_dialog", Len(cmds) + 1,
                       Dialog("error", "Client not ready", PyNone))
             ELSE UiAt("join_pwd", Len(cmds) + 1, PyNone)
    /\ UNCHANGED <<sup, conn, session, coros, config, joinctx>>

JoinGameAction == JoinGameActionUpTo(MaxCommands)

\* response_data.split(',', 1) then summoner_info.split('#', 1) (348-350):
\* <<summoner, tag, pin>>, or <<>> when an unpacking raises ValueError
\* (ParseJoinMatchOff: an empty tag for a left part without '#', a faulty
\* variant)
ParseJoinMatchOff(text) ==
    LET parts == SplitFirst(Strip(text), ",")
    IN  IF Len(parts) # 2 THEN <<>>
        ELSE IF Len(SplitFirst(parts[1], "#")) # 2 THEN <<parts[1], <<>>, parts[2]>>
        ELSE <<SplitFirst(parts[1], "#")[1], SplitFirst(parts[1], "#")[2], parts[2]>>
ParseJoinMatch(text) ==
    LET parts == SplitFirst(Strip(text), ",")
    IN  IF Len(parts) # 2 THEN <<>>
        ELSE IF Len(SplitFirst(parts[1], "#")) # 2 THEN <<>>
        ELSE <<SplitFirst(parts[1], "#")[1], SplitFirst(parts[1], "#")[2], parts[2]>>

\* the password prompt (332-336), the /joinmatch request (340), then either
\* the parse and root.after(0, schedule_join) (347-362), or the call of
\* show_dialog for a reply that is not usable (343-345) and for every
\* exception (364-365)
JoinPwdOn(resps) ==
    /\ Running
    /\ ui.pc = "join_pwd"
    /\ MenuRuns
    /\ \E given \in BOOLEAN, r \in resps :
         IF ~given
         THEN /\ ui' = UiIdle
              /\ UNCHANGED <<cmds, tkQueue>>
         ELSE /\ cmds' = [cmds EXCEPT ![ui.c].pwd = TRUE, ![ui.c].remote = @ + 1,
                                      ![ui.c].reply = r]
              /\ IF r.k = "exc"
                 THEN /\ ui' = UiAt("show_dialog", ui.c, Dialog("error", "Error", PyNone))
                      /\ UNCHANGED tkQueue
                 ELSE IF r.status # 200 \/ r.json = <<>>
                 THEN /\ ui' = UiAt("show_dialog", ui.c,
                                     Dialog("error", "Invalid response", PyNone))
                      /\ UNCHANGED tkQueue
                 ELSE IF ParseJoinMatch(r.json) = <<>>
                 THEN /\ ui' = UiAt("show_dialog", ui.c, Dialog("error", "Error", PyNone))
                      /\ UNCHANGED tkQueue
                 ELSE /\ ui' = UiIdle
                      /\ tkQueue' = Append(tkQueue,
                             [f |-> "schedule_join", delay |-> 0, c |-> ui.c,
                              summoner |-> ParseJoinMatch(r.json)[1],
                              tag |-> ParseJoinMatch(r.json)[2],
                              pin |-> ParseJoinMatch(r.json)[3]])
    /\ uiStack' = IF ui'.pc = "idle" THEN Pop(uiStack) ELSE uiStack
    /\ UNCHANGED <<sup, conn, session, coros, config, jobs>>

JoinPwd == JoinPwdOn(JoinResponses)

\* ------------------------------------------------ quit_application (613-637)
\* the menu entry "Quit" fires: show_dialog("yesno", "Confirm Exit", ...)
\* is called (618)
QuitApplication ==
    /\ Running
    /\ supPc # "main"
    /\ ui.pc = "idle"
    /\ ui' = UiAt("quit_confirm", 0, PyNone)
    /\ uiStack' = Append(uiStack, Frame("menu", 0, PyNone))
    /\ UNCHANGED <<sup, conn, session, coros, cmds, config, joinctx>>

\* the box of 618 is answered: without a yes the command returns (619), with
\* one icon.stop() and os._exit(0) end the process (627-633) with every
\* thread, callback and task as it is
QuitConfirm ==
    /\ Running
    /\ ui.pc = "quit_confirm"
    /\ MenuRuns
    /\ \E yes \in BOOLEAN :
         IF yes
         THEN ui' = UiAt("exited", 0, PyNone) /\ UNCHANGED uiStack
         ELSE ui' = UiIdle /\ uiStack' = Pop(uiStack)
    /\ UNCHANGED <<sup, conn, session, coros, cmds, config, joinctx>>

\* ------------------------------------------------ Tk callbacks (root.after)
\* timers fire by due time: a callback posted with delay 0 may pass ones
\* posted earlier with delay 100, never one posted earlier with delay 0
\* (RunnableOff: any queued callback may run next, a faulty variant)
RunnableOff(i) == i \in 1..Len(tkQueue)
Runnable(i) ==
    /\ i \in 1..Len(tkQueue)
    /\ \A j \in 1..(i-1) : tkQueue[j].delay = 100 /\ tkQueue[i].delay = 0

Without(q, i) == SubSeq(q, 1, i - 1) \o SubSeq(q, i + 1, Len(q))

\* schedule_join (353-359)
TkScheduleJoin(i) ==
    /\ Running
    /\ MainYields
    /\ Runnable(i)
    /\ tkQueue[i].f = "schedule_join"
    /\ IF ConnectorAndRoot
       THEN /\ tkQueue' = Append(Without(tkQueue, i),
                                 [tkQueue[i] EXCEPT !.f = "join_lobby", !.delay = 100])
            /\ UNCHANGED uiStack
       ELSE /\ tkQueue' = Without(tkQueue, i)
            /\ uiStack' = Append(uiStack,
                             Frame("dialog", tkQueue[i].c,
                                         Dialog("error", "Connector or UI not ready", PyNone)))
    /\ UNCHANGED <<sup, conn, session, coros, ui, cmds, config, jobs>>

NewJob(e) ==
    [c |-> e.c, summoner |-> e.summoner, tag |-> e.tag, pin |-> e.pin,
     pc |-> "start", resp |-> NoResp, game_id |-> 0, req |-> PyNone, join |-> NoResp]

\* endpoint = f'/lol-lobby/v2/lobby/custom/{game_id}/join' and
\* body = {'asSpectator': False, 'password': pin} (406-410)
JoinRequest(game_id, pin) ==
    [method |-> "POST", id |-> game_id, body |-> [asSpectator |-> FALSE, password |-> pin]]

\* join_lobby (368-430): connector._connection._loop.create_task(...).  With
\* a live connection the task is created on the running loop.  With no
\* connection the attribute access raises inside the Tk callback and nothing
\* is reported; with a closed one it raises, or the task is created on a loop
\* that no longer runs.
CreatesTask(connection, raises) == connection = "live" \/ (connection = "closed" /\ ~raises)

TkJoinLobby(i) ==
    /\ Running
    /\ MainYields
    /\ Runnable(i)
    /\ tkQueue[i].f = "join_lobby"
    /\ tkQueue' = Without(tkQueue, i)
    /\ \E raises \in BOOLEAN :
         jobs' = IF CreatesTask(conn, raises) THEN Append(jobs, NewJob(tkQueue[i])) ELSE jobs
    /\ UNCHANGED <<sup, conn, session, coros, uictx>>

\* the lambda of the except clause (426-427) reads e when it runs, after the
\* except block has unbound it: building the message raises NameError and
\* show_dialog is not called.  The other lambdas read summoner, tag and
\* error_text, which stay bound.
CallbackRaises(e) == e.f = "dialog_unbound_e"

\* a lambda posted by do_join_lobby with root.after(0, ...) is taken off the
\* timer queue and run: it calls show_dialog, which enters root.update()
\* (132), unless building its message raises
TkDialog(i) ==
    /\ Running
    /\ MainYields
    /\ Runnable(i)
    /\ tkQueue[i].f \in {"dialog", "dialog_unbound_e"}
    /\ tkQueue' = Without(tkQueue, i)
    /\ uiStack' = IF CallbackRaises(tkQueue[i])
                  THEN uiStack
                  ELSE Append(uiStack, Frame("dialog", tkQueue[i].c, tkQueue[i].d))
    /\ UNCHANGED <<sup, conn, session, coros, ui, cmds, config, jobs>>

\* show_dialog called by a Tk callback: root.update() (132) of the innermost
\* call returns once the callbacks that were due have run and the calls of
\* show_dialog they made have returned; its box opens (138-143)
TkShowDialog ==
    /\ Running
    /\ uiStack # <<>>
    /\ uiStack[Len(uiStack)].f = "dialog"
    /\ uiStack' = Pop(uiStack)
    /\ cmds' = Report(cmds, uiStack[Len(uiStack)].c, uiStack[Len(uiStack)].d)
    /\ UNCHANGED <<sup, conn, session, coros, ui, config, joinctx>>

\* root.after called by do_join_lobby, that is on the connector thread (965,
\* 430), for an interpreter that belongs to the main thread (913): tkinter
\* hands such a call over only while the main thread is in mainloop(), which
\* main never enters (root.update() at 971, app_icon.run() at 981).  With a
\* thread-enabled Tcl the call raises RuntimeError, otherwise it is made in
\* place.
AfterRaises == tcl_threaded

\* the Tk timer queue with a callback added that shows dialog d for command c
PostDialog(q, c, d) == Append(q, [f |-> "dialog", delay |-> 0, c |-> c, d |-> d])

\* root.after(0, lambda: show_dialog(...)) at 401, 414 and 420, inside the
\* try: a RuntimeError of root.after goes to the except clause, whose own
\* root.after (426) raises again, and the task ends with nothing posted
AfterDialog(q, c, d) == IF AfterRaises THEN q ELSE PostDialog(q, c, d)

\* root.after(0, lambda: show_dialog(... {str(e)})) of the except clause (426)
AfterExceptDialog(q, c) ==
    IF AfterRaises THEN q
    ELSE Append(q, [f |-> "dialog_unbound_e", delay |-> 0, c |-> c,
                    d |-> Dialog("error", "Error during join process", PyNone)])

\* ------------------------------------------------- do_join_lobby (374-427)
\* the task starts (tasks start in the order they were created): the lobby
\* list request is awaited (377)
JobStart(i, lists) ==
    /\ Running
    /\ conn = "live"
    /\ i \in 1..Len(jobs)
    /\ jobs[i].pc = "start"
    /\ \A j \in 1..(i-1) : jobs[j].pc # "start"
    /\ \E r \in GamesResponses(lists) :
         jobs' = [jobs EXCEPT ![i].pc = "await_games", ![i].resp = r]
    /\ cmds' = [cmds EXCEPT ![jobs[i].c].gets = @ + 1]
    /\ UNCHANGED <<sup, conn, session, coros, ui, uiStack, config, tkQueue>>

\* the lobby list arrives (378): match (380-397); without a match root.after
\* is called with the error dialog and the task ends (399-403), else the join
\* request is awaited (405-410); a request or a json() that raises ends in
\* the except clause (422-427)
JobGames(i) ==
    /\ Running
    /\ conn = "live"
    /\ i \in 1..Len(jobs)
    /\ jobs[i].pc = "await_games"
    /\ LET job == jobs[i]
           m == FindMatch(job.resp.json, job.summoner, job.tag)
       IN  IF job.resp.k = "exc"
           THEN /\ tkQueue' = AfterExceptDialog(tkQueue, job.c)
                /\ jobs' = Without(jobs, i)
                /\ UNCHANGED cmds
           ELSE IF m = 0
           THEN /\ tkQueue' = AfterDialog(tkQueue, job.c,
                                          Dialog("error", "Couldn't find lobby",
                                                 <<job.summoner, job.tag>>))
                /\ jobs' = Without(jobs, i)
                /\ UNCHANGED cmds
           ELSE /\ \E r \in JoinLobbyResponses :
                     jobs' = [jobs EXCEPT ![i].pc = "await_join",
                                          ![i].game_id = job.resp.json[m].id,
                                          ![i].req = JoinRequest(job.resp.json[m].id, job.pin),
                                          ![i].join = r]
                /\ cmds' = [cmds EXCEPT ![job.c].posts = @ + 1]
                /\ UNCHANGED tkQueue
    /\ UNCHANGED <<sup, conn, session, coros, ui, uiStack, config>>

\* the join reply arrives (412-421): root.after is called with the success
\* or the failure dialog and the task ends; a request or a json() that raises
\* ends in the except clause (422-427)
JobJoin(i) ==
    /\ Running
    /\ conn = "live"
    /\ i \in 1..Len(jobs)
    /\ jobs[i].pc = "await_join"
    /\ LET r == jobs[i].join
       IN  tkQueue' =
              IF r.k = "exc"
              THEN AfterExceptDialog(tkQueue, jobs[i].c)
              ELSE IF r.status = 200
              THEN AfterDialog(tkQueue, jobs[i].c,
                       Dialog("info", "Successfully joined", <<jobs[i].summoner, jobs[i].tag>>))
              ELSE AfterDialog(tkQueue, jobs[i].c,
                       Dialog("error", "Failed to join",
                              GetOr(r.json.message, Str("Unknown error"))))
    /\ jobs' = Without(jobs, i)
    /\ UNCHANGED <<sup, conn, session, coros, uictx>>

\* ------------------------------------------------------- the full system
\* on the small reply sets: an identity event is delivered once the
\* invocation for the previous one has returned, a string phase event also
\* while an earlier invocation awaits its re-fetch; the user may quit at any
\* point the menu is free
Next ==
    \/ SupLoop
    \/ SupStartFails(MaxFailures)
    \/ SupWake
    \/ SupStartConnects
    \/ Drop
    \/ SupAfterLoop
    \/ HsBeginOn(SmallPhaseResponses)
    \/ HsPhaseOn(SmallSummonerResponses)
    \/ HsSummoner
    \/ HsTagOn(SmallRegionResponses)
    \/ HsRegion
    \/ SmEventOn(SmallIdentityEvents)
    \/ SmRun
    \/ SmTagOn(SmallSummonerResponses, SmallRegionResponses)
    \/ SmRefetchOn(SmallRegionResponses)
    \/ SmTag2On(SmallRegionResponses)
    \/ SmRegion
    \/ PhEventOn(SmallPhaseEvents)
    \/ PhRunOn(SmallPhaseResponses)
    \/ PhPhase
    \/ PhLaterOn({Str("Lobby")})
    \/ RegisterAction
    \/ RegManual
    \/ RegSetTag
    \/ RegDisplay
    \/ RegOtp
    \/ CheckStatusAction
    \/ JoinGameAction
    \/ JoinPwd
    \/ ShowDialog
    \/ QuitApplication
    \/ QuitConfirm
    \/ \E i \in 1..Len(tkQueue) : TkScheduleJoin(i)
    \/ \E i \in 1..Len(tkQueue) : TkJoinLobby(i)
    \/ \E i \in 1..Len(tkQueue) : TkDialog(i)
    \/ TkShowDialog
    \/ \E i \in 1..Len(jobs) : JobStart(i, SmallLists)
    \/ \E i \in 1..Len(jobs) : JobGames(i)
    \/ \E i \in 1..Len(jobs) : JobJoin(i)

Spec == Init /\ [][Next]_vars

\* ---------------------------------- the retry loop against a client that
\* may stay away for every one of the max_attempts attempts
NextRetry ==
    \/ SupLoop
    \/ SupStartFails(max_attempts)
    \/ SupWake
    \/ SupStartConnects
    \/ Drop
    \/ SupAfterLoop
    \/ HsBegin
    \/ HsPhase
    \/ HsSummoner
    \/ HsTag
    \/ HsRegion
    \/ CheckStatusAction
    \/ ShowDialog

SpecRetry == Init /\ [][NextRetry]_vars

\* ---------------------------------- the join sequencer on every lobby list
\* of RichLists: a join command whose /joinmatch reply named the target has
\* had its do_join_lobby task created on the live connection
InitSeq ==
    /\ supPc = "connected"
    /\ attempts = 0
    /\ exhaustReports = 0
    /\ launch = NoLaunch
    /\ started = <<connector>>
    /\ tcl_threaded \in BOOLEAN
    /\ conn = "live"
    /\ is_ready = TRUE
    /\ current_phase = Str("Lobby")
    /\ summoner_name = PyNone
    /\ summoner_tag = PyNone
    /\ region = PyNone
    /\ hs = At("done", NoResp)
    /\ sm = Idle
    /\ ph = Idle
    /\ ui = UiIdle
    /\ uiStack = <<>>
    /\ config = PyNone
    /\ tkQueue = <<>>
    /\ \E t \in SeqTargets :
         /\ cmds = <<[NewCmd("join") EXCEPT !.pwd = TRUE, !.remote = 1,
                        !.reply = Ok(200, t[1] \o <<"#">> \o t[2] \o <<",", "p">>)]>>
         /\ jobs = <<NewJob([c |-> 1, summoner |-> t[1], tag |-> t[2], pin |-> <<"p">>])>>

\* ---------------------------------- the launch: main's authentication
\* with or without a stored credential, then the connector thread and the
\* ready handler
InitStart ==
    /\ supPc = "main"
    /\ attempts = 0
    /\ exhaustReports = 0
    /\ launch = NoLaunch
    /\ started = <<>>
    /\ tcl_threaded = TRUE
    /\ conn = "none"
    /\ is_ready = FALSE
    /\ current_phase = PyNone
    /\ summoner_name = PyNone
    /\ summoner_tag = PyNone
    /\ region = PyNone
    /\ hs = Idle
    /\ sm = Idle
    /\ ph = Idle
    /\ ui = UiIdle
    /\ uiStack = <<>>
    /\ cmds = <<>>
    /\ config \in {PyNone, Str(<<"7">>)}
    /\ tkQueue = <<>>
    /\ jobs = <<>>

NextStart ==
    \/ MainAuth
    \/ SupLoop
    \/ SupStartFails(MaxFailures)
    \/ SupWake
    \/ SupStartConnects
    \/ Drop
    \/ SupAfterLoop
    \/ HsBegin
    \/ HsPhase
    \/ HsSummoner
    \/ HsTag
    \/ HsRegion
    \/ CheckStatusAction
    \/ ShowDialog

SpecStart == InitStart /\ [][NextStart]_vars

\* ---------------------------------- the join command on a ready client,
\* from the menu entry to the dialog on every lobby list of JoinLists, the
\* connection dropping at any point
InitJoin ==
    /\ supPc = "connected"
    /\ attempts = 0
    /\ exhaustReports = 0
    /\ launch = NoLaunch
    /\ started = <<connector>>
    /\ tcl_threaded \in BOOLEAN
    /\ conn = "live"
    /\ is_ready = TRUE
    /\ current_phase \in {PyNone, Str("Lobby")}
    /\ summoner_name = PyNone
    /\ summoner_tag = PyNone
    /\ region = PyNone
    /\ hs = At("done", NoResp)
    /\ sm = Idle
    /\ ph = Idle
    /\ ui = UiIdle
    /\ uiStack = <<>>
    /\ cmds = <<>>
    /\ config = PyNone
    /\ tkQueue = <<>>
    /\ jobs = <<>>

NextJoin ==
    \/ Drop
    \/ SupAfterLoop
    \/ JoinGameAction
    \/ JoinPwd
    \/ ShowDialog
    \/ \E i \in 1..Len(tkQueue) : TkScheduleJoin(i)
    \/ \E i \in 1..Len(tkQueue) : TkJoinLobby(i)
    \/ \E i \in 1..Len(tkQueue) : TkDialog(i)
    \/ TkShowDialog
    \/ \E i \in 1..Len(jobs) : JobStart(i, JoinLists)
    \/ \E i \in 1..Len(jobs) : JobGames(i)
    \/ \E i \in 1..Len(jobs) : JobJoin(i)

SpecJoin == InitJoin /\ [][NextJoin]_vars

\* ---------------------------------- up to MaxJoins join commands, one
\* after the other, on a ready client in a lobby phase: each is handed to the
\* Tk loop and from there to the connection's event loop while the earlier
\* ones are still on their way
InitFifo ==
    /\ supPc = "connected"
    /\ attempts = 0
    /\ exhaustReports = 0
    /\ launch = NoLaunch
    /\ started = <<connector>>
    /\ tcl_threaded \in BOOLEAN
    /\ conn = "live"
    /\ is_ready = TRUE
    /\ current_phase = Str("Lobby")
    /\ summoner_name = PyNone
    /\ summoner_tag = PyNone
    /\ region = PyNone
    /\ hs = At("done", NoResp)
    /\ sm = Idle
    /\ ph = Idle
    /\ ui = UiIdle
    /\ uiStack = <<>>
    /\ cmds = <<>>
    /\ config = PyNone
    /\ tkQueue = <<>>
    /\ jobs = <<>>

NextFifo ==
    \/ Drop
    \/ SupAfterLoop
    \/ JoinGameActionUpTo(MaxJoins)
    \/ JoinPwd
    \/ ShowDialog
    \/ \E i \in 1..Len(tkQueue) : TkScheduleJoin(i)
    \/ \E i \in 1..Len(tkQueue) : TkJoinLobby(i)
    \/ \E i \in 1..Len(tkQueue) : TkDialog(i)
    \/ TkShowDialog
    \/ \E i \in 1..Len(jobs) : JobStart(i, SmallLists)
    \/ \E i \in 1..Len(jobs) : JobGames(i)
    \/ \E i \in 1..Len(jobs) : JobJoin(i)

SpecFifo == InitFifo /\ [][NextFifo]_vars

\* ---------------------------------- the push-event handlers on a ready
\* client whose handshake has returned, each event delivered once the
\* invocation for the previous one of its kind has returned
InitEvents ==
    /\ supPc = "connected"
    /\ attempts = 0
    /\ exhaustReports = 0
    /\ launch = NoLaunch
    /\ started = <<connector>>
    /\ tcl_threaded = TRUE
    /\ conn = "live"
    /\ is_ready = TRUE
    /\ current_phase \in {PyNone, Str("Lobby")}
    /\ \E d \in {[gameName |-> PyNone, tagLine |-> PyNone],
                  [gameName |-> Str(NameA), tagLine |-> Str(TagA)]} :
         summoner_name = d.gameName /\ summoner_tag = d.tagLine
    /\ region \in {PyNone, Str(<<"E", "U">>)}
    /\ hs = At("done", NoResp)
    /\ sm = Idle
    /\ ph = Idle
    /\ ui = UiIdle
    /\ uiStack = <<>>
    /\ cmds = <<>>
    /\ config = PyNone
    /\ tkQueue = <<>>
    /\ jobs = <<>>

NextEvents ==
    \/ SmEvent
    \/ SmRun
    \/ SmTag
    \/ SmRefetch
    \/ SmTag2
    \/ SmRegion
    \/ PhEvent
    \/ PhRun
    \/ PhPhase

SpecEvents == InitEvents /\ [][NextEvents]_vars

\* ---------------------------------- the ready handler and the push-event
\* handlers on a connection that stays up: the handshake has just been
\* invoked, Session State is as at launch (60-65)
InitHandlers ==
    /\ supPc = "connected"
    /\ attempts = 0
    /\ exhaustReports = 0
    /\ launch = NoLaunch
    /\ started = <<connector>>
    /\ tcl_threaded \in BOOLEAN
    /\ conn = "live"
    /\ is_ready = FALSE
    /\ current_phase = PyNone
    /\ summoner_name = PyNone
    /\ summoner_tag = PyNone
    /\ region = PyNone
    /\ hs = At("invoked", NoResp)
    /\ sm = Idle
    /\ ph = Idle
    /\ ui = UiIdle
    /\ uiStack = <<>>
    /\ cmds = <<>>
    /\ config = PyNone
    /\ tkQueue = <<>>
    /\ jobs = <<>>

NextHandlers ==
    \/ HsBegin
    \/ HsPhase
    \/ HsSummoner
    \/ HsTag
    \/ HsRegion
    \/ SmEvent
    \/ SmRun
    \/ SmTag
    \/ SmRefetch
    \/ SmTag2
    \/ SmRegion
    \/ PhEvent
    \/ PhRun
    \/ PhPhase

SpecHandlers == InitHandlers /\ [][NextHandlers]_vars

\* ---------------------------------- the register and join commands fired
\* at any point of the handshake and of the phase events that follow it
NextGuards ==
    \/ HsBegin
    \/ HsPhase
    \/ HsSummoner
    \/ HsTag
    \/ HsRegion
    \/ PhEvent
    \/ PhRun
    \/ PhPhase
    \/ RegisterAction
    \/ RegManual
    \/ RegSetTag
    \/ RegDisplay
    \/ RegOtp
    \/ JoinGameAction
    \/ JoinPwd
    \/ ShowDialog
    \/ \E i \in 1..Len(tkQueue) : TkScheduleJoin(i)
    \/ \E i \in 1..Len(tkQueue) : TkJoinLobby(i)
    \/ \E i \in 1..Len(tkQueue) : TkDialog(i)
    \/ TkShowDialog
    \/ \E i \in 1..Len(jobs) : JobStart(i, SmallLists)
    \/ \E i \in 1..Len(jobs) : JobGames(i)
    \/ \E i \in 1..Len(jobs) : JobJoin(i)

SpecGuards == InitHandlers /\ [][NextGuards]_vars

\* ---------------------------------- the phase handler on a ready client
\* in a lobby phase, phase events arriving while an earlier one is still
\* being handled
InitOverlap ==
    /\ supPc = "connected"
    /\ attempts = 0
    /\ exhaustReports = 0
    /\ launch = NoLaunch
    /\ started = <<connector>>
    /\ tcl_threaded = TRUE
    /\ conn = "live"
    /\ is_ready = TRUE
    /\ current_phase \in {PyNone, Str("Lobby")}
    /\ \E d \in SummonerJson : summoner_name = d.gameName /\ summoner_tag = d.tagLine
    /\ region \in {PyNone, Str(<<"E", "U">>)}
    /\ hs = At("done", NoResp)
    /\ sm = Idle
    /\ ph = Idle
    /\ ui = UiIdle
    /\ uiStack = <<>>
    /\ cmds = <<>>
    /\ config = PyNone
    /\ tkQueue = <<>>
    /\ jobs = <<>>

NextOverlap ==
    \/ PhEvent
    \/ PhRun
    \/ PhPhase
    \/ PhLaterOn(PhaseJson)

SpecOverlap == InitOverlap /\ [][NextOverlap]_vars

\* ---------------------------------- register_action on a ready client,
\* with or without a detected identity and a stored credential, on every
\* /otp reply of RichOtpResponses
InitOtp ==
    /\ supPc = "connected"
    /\ attempts = 0
    /\ exhaustReports = 0
    /\ launch = NoLaunch
    /\ started = <<connector>>
    /\ tcl_threaded = TRUE
    /\ conn = "live"
    /\ is_ready = TRUE
    /\ current_phase = Str("Lobby")
    /\ \E d \in SummonerJson : summoner_name = d.gameName /\ summoner_tag = d.tagLine
    /\ region \in {PyNone, Str(<<"E", "U">>)}
    /\ hs = At("done", NoResp)
    /\ sm = Idle
    /\ ph = Idle
    /\ ui = UiIdle
    /\ uiStack = <<>>
    /\ cmds = <<>>
    /\ config \in {PyNone, Str(<<"9">>)}
    /\ tkQueue = <<>>
    /\ jobs = <<>>

NextOtp ==
    \/ RegisterAction
    \/ RegManual
    \/ RegSetTag
    \/ RegDisplay
    \/ RegOtpOn(RichOtpResponses)
    \/ ShowDialog

SpecOtp == InitOtp /\ [][NextOtp]_vars

\* ---------------------------------- join_game_action at its password
\* prompt, on every /joinmatch reply of ParseResponses
InitParse ==
    /\ supPc = "connected"
    /\ attempts = 0
    /\ exhaustReports = 0
    /\ launch = NoLaunch
    /\ started = <<connector>>
    /\ tcl_threaded = TRUE
    /\ conn = "live"
    /\ is_ready = TRUE
    /\ current_phase = Str("Lobby")
    /\ summoner_name = PyNone
    /\ summoner_tag = PyNone
    /\ region = PyNone
    /\ hs = At("done", NoResp)
    /\ sm = Idle
    /\ ph = Idle
    /\ ui = UiAt("join_pwd", 1, PyNone)
    /\ uiStack = <<Frame("menu", 1, PyNone)>>
    /\ cmds = <<NewCmd("join")>>
    /\ config = PyNone
    /\ tkQueue = <<>>
    /\ jobs = <<>>

NextParse ==
    \/ JoinPwdOn(ParseResponses)
    \/ ShowDialog
    \/ \E i \in 1..Len(tkQueue) : TkScheduleJoin(i)
    \/ \E i \in 1..Len(tkQueue) : TkJoinLobby(i)

SpecParse == InitParse /\ [][NextParse]_vars

\* ---------------------------------- the register command on a ready client
\* whose handshake has returned, identity events arriving while it runs
NextRead ==
    \/ SmEvent
    \/ SmRun
    \/ SmTag
    \/ SmRefetch
    \/ SmTag2
    \/ SmRegion
    \/ RegisterAction
    \/ RegManual
    \/ RegSetTag
    \/ RegDisplay
    \/ RegOtp
    \/ ShowDialog

SpecRead == InitEvents /\ [][NextRead]_vars

NextSeq ==
    \/ \E i \in 1..Len(jobs) : JobStart(i, RichLists)
    \/ \E i \in 1..Len(jobs) : JobGames(i)
    \/ \E i \in 1..Len(jobs) : JobJoin(i)
    \/ \E i \in 1..Len(tkQueue) : TkDialog(i)
    \/ TkShowDialog

SpecSeq == InitSeq /\ [][NextSeq]_vars

\* =================================================================== claims

\* C1: the retry loop calls connector.start() only while attempts is below
\* max_attempts (at most max_attempts calls); once every attempt has failed
\* exhaustion is reported exactly once, and a loop ended by a successful
\* start() reports none; after the thread function has ended it makes no
\* further attempt and no further report.
RetryInv ==
    /\ attempts <= max_attempts
    /\ (supPc = "start" => attempts < max_attempts)
    /\ exhaustReports <= 1
    /\ (supPc = "done" => (exhaustReports = 1 <=> attempts = max_attempts))
    /\ (supPc # "done" => exhaustReports = 0)
    /\ (conn # "none" => attempts < max_attempts /\ exhaustReports = 0)
RetryBounded ==
    /\ []RetryInv
    /\ [][supPc = "done" => (supPc' = "done" /\ attempts' = attempts
                              /\ exhaustReports' = exhaustReports /\ conn' = conn)]_vars
RetryExhausted == supPc = "done" /\ attempts = max_attempts /\ exhaustReports = 1 /\ conn = "none"

\* C2: whenever is_ready is true the ready handler has finished its phase
\* read and its identity/region fetch.
ReadyAfterHandshake == is_ready => hs.pc = "done"

\* C3: once the connection is lost, Session State is ready = false with phase,
\* identity and region absent.
ResetOnLoss ==
    conn = "closed" =>
        /\ ~is_ready
        /\ current_phase = PyNone
        /\ summoner_name = PyNone
        /\ summoner_tag = PyNone
        /\ region = PyNone

\* C4: no step of the UI/action context (register, join game, check status)
\* writes is_ready, current_phase, summoner_name, summoner_tag or region.
UiStep ==
    \/ ui' # ui
    \/ \E k \in 1..Len(cmds') :
         cmds'[k].kind \in {"register", "status"} /\ (k > Len(cmds) \/ cmds'[k] # cmds[k])
UiNeverWrites == [][UiStep => UNCHANGED session]_vars

\* C5: a read of the identity and region by the UI context never falls inside
\* a handler invocation's update of identity and region: it never takes the
\* name and tag the invocation has written in place of a complete, different
\* identity together with the region from before it, while the invocation's
\* different region is still to be written.
RegionPending(co) ==
    /\ co.pc = "await_region"
    /\ co.changed
    /\ Truthy(summoner_name) /\ Truthy(summoner_tag) /\ Truthy(region)
    /\ co.resp.k = "ok"
    /\ co.resp.status = 200
    /\ RegionOf(co.resp.json) # region
PartiallyApplied == RegionPending(sm) \/ RegionPending(hs)
ReadsIdentity == ui.pc = "reg_display" /\ ui'.pc = "reg_otp"
NoTornRead == [][ReadsIdentity => ~PartiallyApplied]_vars

\* C6: a lobby join scheduled while the connection is not live creates no
\* task and is reported as a failure, and no task stays queued on a
\* connection that is not live without a failure reported for it.
FailureKnown(q, st, cs, c) ==
    \/ \E k \in 1..Len(cs[c].outcomes) : cs[c].outcomes[k].type = "error"
    \/ \E k \in 1..Len(q) : q[k].f = "dialog" /\ q[k].c = c /\ q[k].d.type = "error"
    \/ \E k \in 1..Len(st) : st[k].f = "dialog" /\ st[k].c = c /\ st[k].d.type = "error"
JoinWithoutConnectionFails ==
    /\ [][\A i \in 1..Len(tkQueue) :
            (tkQueue[i].f = "join_lobby" /\ conn # "live" /\ tkQueue' = Without(tkQueue, i))
            => (jobs' = jobs /\ FailureKnown(tkQueue', uiStack', cmds', tkQueue[i].c))]_vars
    /\ [](\A i \in 1..Len(jobs) : conn # "live" => FailureKnown(tkQueue, uiStack, cmds, jobs[i].c))

\* C7: a join command for which a password was supplied, once nothing of it
\* is left to run (not in the UI context, no callback posted, no dialog about
\* to open, no task), has exactly one reported outcome.
Settled(c) ==
    /\ ui.c # c
    /\ \A k \in 1..Len(uiStack) : uiStack[k].c # c
    /\ \A k \in 1..Len(tkQueue) : tkQueue[k].c # c
    /\ \A k \in 1..Len(jobs) : jobs[k].c # c
JoinAlwaysReported ==
    \A c \in 1..Len(cmds) :
        (cmds[c].kind = "join" /\ cmds[c].pwd /\ Settled(c)) => Len(cmds[c].outcomes) = 1

\* The rules of C8-C10 as the claims word them, on an owner text.
RuleText(g) == IF g.ownerDisplayName = PyNone THEN <<>> ELSE g.ownerDisplayName.v
SameIgnoringCase(a, b) ==
    Len(a) = Len(b) /\ \A k \in 1..Len(a) : LowerChar(a[k]) = LowerChar(b[k])
RuleExact(g, name, tag) == SameIgnoringCase(RuleText(g), name \o <<" ", "#">> \o tag)
RulePrefix(g, name) ==
    /\ Len(RuleText(g)) >= Len(name) + 1
    /\ SameIgnoringCase(SubSeq(RuleText(g), 1, Len(name) + 1), name \o <<"#">>)

\* the task of command c, or a record with pc "gone"
JobOf(js, c) ==
    IF \E k \in 1..Len(js) : js[k].c = c
    THEN js[CHOOSE k \in 1..Len(js) : js[k].c = c]
    ELSE [pc |-> "gone"]
\* the task of command c holds a lobby list and takes its next step
MatchStep(c) ==
    /\ JobOf(jobs, c).pc = "await_games"
    /\ JobOf(jobs, c).resp.k = "ok"
    /\ JobOf(jobs', c).pc # "await_games"
\* position in the list held by job j of the lobby it asked to join
Selected(j) == CHOOSE k \in 1..Len(j.resp.json) : j.resp.json[k].id = j.game_id

\* C8: when some lobby of the list satisfies the exact rule, the sequencer
\* goes on to join the first such lobby in list order.
ExactSelectsFirst ==
    [][\A c \in 1..Len(cmds) :
         LET j == JobOf(jobs, c)
             games == j.resp.json
         IN  (MatchStep(c) /\ \E k \in 1..Len(games) : RuleExact(games[k], j.summoner, j.tag))
             => /\ JobOf(jobs', c).pc = "await_join"
                /\ \E k \in 1..Len(games) :
                     /\ JobOf(jobs', c).game_id = games[k].id
                     /\ RuleExact(games[k], j.summoner, j.tag)
                     /\ \A n \in 1..(k-1) : ~RuleExact(games[n], j.summoner, j.tag)]_vars
ExactSelected ==
    \E i \in 1..Len(jobs) :
        /\ jobs[i].pc = "await_join"
        /\ Selected(jobs[i]) = 2
        /\ RuleExact(jobs[i].resp.json[2], jobs[i].summoner, jobs[i].tag)
        /\ RuleText(jobs[i].resp.json[2]) # jobs[i].summoner \o <<" ", "#">> \o jobs[i].tag
        /\ RulePrefix(jobs[i].resp.json[1], jobs[i].summoner)
        /\ Len(jobs[i].resp.json) = 3
        /\ RuleExact(jobs[i].resp.json[3], jobs[i].summoner, jobs[i].tag)

\* C9: the prefix rule decides only when no lobby satisfies the exact rule,
\* and then the first lobby in list order whose owner starts with the prefix
\* is joined; a lobby that does not satisfy the exact rule is never joined
\* while the list holds one that does.
PrefixOnlyWithoutExact ==
    /\ [][\A c \in 1..Len(cmds) :
            LET j == JobOf(jobs, c)
                games == j.resp.json
            IN  (/\ MatchStep(c)
                 /\ \A k \in 1..Len(games) : ~RuleExact(games[k], j.summoner, j.tag)
                 /\ \E k \in 1..Len(games) : RulePrefix(games[k], j.summoner))
                => /\ JobOf(jobs', c).pc = "await_join"
                   /\ \E k \in 1..Len(games) :
                        /\ JobOf(jobs', c).game_id = games[k].id
                        /\ RulePrefix(games[k], j.summoner)
                        /\ \A n \in 1..(k-1) : ~RulePrefix(games[n], j.summoner)]_vars
    /\ [](\A i \in 1..Len(jobs) :
            (jobs[i].pc = "await_join"
             /\ ~RuleExact(jobs[i].resp.json[Selected(jobs[i])], jobs[i].summoner, jobs[i].tag))
            => \A k \in 1..Len(jobs[i].resp.json) :
                 ~RuleExact(jobs[i].resp.json[k], jobs[i].summoner, jobs[i].tag))
PrefixSelected ==
    \E i \in 1..Len(jobs) :
        /\ jobs[i].pc = "await_join"
        /\ Selected(jobs[i]) = 2
        /\ RulePrefix(jobs[i].resp.json[2], jobs[i].summoner)
        /\ ~RulePrefix(jobs[i].resp.json[1], jobs[i].summoner)
        /\ Len(jobs[i].resp.json) = 3
        /\ RulePrefix(jobs[i].resp.json[3], jobs[i].summoner)
        /\ \A k \in 1..3 : ~RuleExact(jobs[i].resp.json[k], jobs[i].summoner, jobs[i].tag)

\* C10: when no lobby of the list satisfies the exact or the prefix rule, the
\* task ends with the lobby-not-found dialog posted and no join call made.
NotFoundPosted(q, c) ==
    \E k \in 1..Len(q) :
        q[k].f = "dialog" /\ q[k].c = c /\ q[k].d.what = "Couldn't find lobby"
NoMatchNoJoin ==
    [][\A c \in 1..Len(cmds) :
         LET j == JobOf(jobs, c)
             games == j.resp.json
         IN  (/\ MatchStep(c)
              /\ \A k \in 1..Len(games) :
                   ~RuleExact(games[k], j.summoner, j.tag) /\ ~RulePrefix(games[k], j.summoner))
             => /\ JobOf(jobs', c).pc = "gone"
                /\ cmds'[c].posts = cmds[c].posts
                /\ NotFoundPosted(tkQueue', c)
                /\ ~NotFoundPosted(tkQueue, c)]_vars

\* The parse of C11-C12 as the claims word it: the text left and right of the
\* first occurrence of a separator.
FirstAt(t, ch) == CHOOSE i \in 1..Len(t) : t[i] = ch /\ \A j \in 1..(i-1) : t[j] # ch
Has(t, ch) == \E i \in 1..Len(t) : t[i] = ch
LeftOf(t, ch) == SubSeq(t, 1, FirstAt(t, ch) - 1)
RightOf(t, ch) == SubSeq(t, FirstAt(t, ch) + 1, Len(t))
\* the dialog a task posts as its last step
Posted(q, q2, c, d) == q2 = Append(q, [f |-> "dialog", delay |-> 0, c |-> c, d |-> d])

\* C11: a matched lobby is followed by one POST to that lobby's id with body
\* {asSpectator: false, password: credential}, the credential being the text
\* right of the first ',' of the /joinmatch reply; a 200 reply is reported as
\* a success naming the target, any other status as a join failure carrying
\* the error body's message, or "Unknown error" without one.
JoinCallAndOutcome ==
    /\ [][\A c \in 1..Len(cmds) :
            LET j == JobOf(jobs, c)
                games == j.resp.json
            IN  (MatchStep(c) /\ JobOf(jobs', c).pc = "await_join")
                => /\ \E k \in 1..Len(games) :
                        /\ (RuleExact(games[k], j.summoner, j.tag) \/ RulePrefix(games[k], j.summoner))
                        /\ JobOf(jobs', c).req.id = games[k].id
                   /\ JobOf(jobs', c).req.method = "POST"
                   /\ JobOf(jobs', c).req.body =
                        [asSpectator |-> FALSE,
                         password |-> RightOf(Strip(cmds[c].reply.json), ",")]
                   /\ cmds'[c].posts = cmds[c].posts + 1]_vars
    /\ [][\A c \in 1..Len(cmds) :
            LET j == JobOf(jobs, c)
            IN  (j.pc = "await_join" /\ JobOf(jobs', c).pc = "gone" /\ j.join.k = "ok")
                => IF j.join.status = 200
                   THEN Posted(tkQueue, tkQueue', c,
                               [type |-> "info", what |-> "Successfully joined",
                                msg |-> <<j.summoner, j.tag>>])
                   ELSE Posted(tkQueue, tkQueue', c,
                               [type |-> "error", what |-> "Failed to join",
                                msg |-> IF j.join.json.message = PyNone
                                        THEN Str("Unknown error")
                                        ELSE j.join.json.message])]_vars

\* a /joinmatch text of the form "{name}#{tag},{credential}"
WellFormed(t) == Has(t, ",") /\ Has(LeftOf(t, ","), "#")
\* what a join command hands on: the callbacks posted for it and its tasks
HandedOn(q, js, c) ==
    {[summoner |-> q[k].summoner, tag |-> q[k].tag, pin |-> q[k].pin] :
        k \in {n \in 1..Len(q) : q[n].c = c /\ q[n].f \in {"schedule_join", "join_lobby"}}}
    \cup {[summoner |-> js[k].summoner, tag |-> js[k].tag, pin |-> js[k].pin] :
        k \in {n \in 1..Len(js) : js[n].c = c}}

\* a command's reply is a 200 with a non-empty text
Usable(r) == r.k = "ok" /\ r.status = 200 /\ r.json # <<>>

\* C12: a 200 /joinmatch reply whose (trimmed) text has a ',' and a '#' in
\* the part left of the first ',' schedules the lobby join with name and tag
\* the two sides of the first '#' of that part and credential the text right
\* of the first ','; any other non-empty text schedules nothing and goes to
\* an error dialog, after which the command has ended with that one dialog
\* reported; nothing is ever handed on for a command but the parse of its
\* reply.
ParseOrFail ==
    /\ [][(ui.pc = "join_pwd" /\ Usable(cmds'[ui.c].reply))
          => LET t == Strip(cmds'[ui.c].reply.json)
             IN  /\ cmds'[ui.c].outcomes = <<>>
                 /\ IF WellFormed(t)
                    THEN /\ ui' = UiIdle
                         /\ tkQueue' = Append(tkQueue,
                                [f |-> "schedule_join", delay |-> 0, c |-> ui.c,
                                 summoner |-> LeftOf(LeftOf(t, ","), "#"),
                                 tag |-> RightOf(LeftOf(t, ","), "#"),
                                 pin |-> RightOf(t, ",")])
                    ELSE /\ tkQueue' = tkQueue
                         /\ ui'.pc = "show_dialog"
                         /\ ui'.c = ui.c
                         /\ ui'.tmp.type = "error"]_vars
    /\ [][(ui.pc = "show_dialog" /\ ui' # ui)
          => /\ ui' = UiIdle
             /\ cmds'[ui.c].outcomes = <<ui.tmp>>]_vars
    /\ [](\A c \in 1..Len(cmds) :
            (Usable(cmds[c].reply) /\ ~WellFormed(Strip(cmds[c].reply.json)) /\ ui.c # c)
            => /\ Len(cmds[c].outcomes) = 1
               /\ cmds[c].outcomes[1].type = "error")
    /\ [](\A c \in 1..Len(cmds) :
            HandedOn(tkQueue, jobs, c) # {}
            => /\ cmds[c].reply.k = "ok"
               /\ WellFormed(Strip(cmds[c].reply.json))
               /\ HandedOn(tkQueue, jobs, c) =
                    {[summoner |-> LeftOf(LeftOf(Strip(cmds[c].reply.json), ","), "#"),
                      tag |-> RightOf(LeftOf(Strip(cmds[c].reply.json), ","), "#"),
                      pin |-> RightOf(Strip(cmds[c].reply.json), ",")]})
\* a reply whose only '#' is right of its first ',' has ended in the error
MalformedReported ==
    /\ cmds[1].reply.k = "ok"
    /\ cmds[1].reply.status = 200
    /\ Has(cmds[1].reply.json, ",")
    /\ Has(cmds[1].reply.json, "#")
    /\ ~WellFormed(Strip(cmds[1].reply.json))
    /\ Len(cmds[1].outcomes) = 1
    /\ cmds[1].outcomes[1].type = "error"
    /\ ui = UiIdle
    /\ uiStack = <<>>
    /\ tkQueue = <<>>
    /\ jobs = <<>>

\* C13: authenticate returns true exactly when /auth answered with status
\* 200; any other status and any request that raises give false, and the
\* launch goes on.
AuthTrueOnly200 ==
    /\ [][supPc = "main" => supPc' = "loop"]_vars
    /\ [](launch.reply # NoResp
          => /\ launch.auth_success \in BOOLEAN
             /\ launch.auth_success = (launch.reply.k = "ok" /\ launch.reply.status = 200))
AuthErrorIsFalse ==
    /\ launch.reply = Exc
    /\ launch.auth_success = FALSE
    /\ supPc = "connected"

\* C14: an /auth failure that is not the definitive not-registered answer
\* (404 with the marker) leaves the stored credential in place.
Definitive(r) == r.k = "ok" /\ r.status = 404 /\ Contains(r.json, UserNotFound)
Transient(r) == r.k = "exc" \/ (r.k = "ok" /\ r.status # 200 /\ ~Definitive(r))
TransientKeepsCredential ==
    (Truthy(launch.stored) /\ Transient(launch.reply)) => config = launch.stored

\* C15: a code redemption stores a credential, and reports success, only on
\* a 200 reply whose body has a non-blank character, and then the body
\* without the blanks around it; on any other reply and on a request that
\* raises one failure is reported and the stored credential stays as it was.
Blank(t) == \A i \in 1..Len(t) : t[i] = " "
Trimmed(t, body) ==
    /\ t # <<>>
    /\ t[1] # " "
    /\ t[Len(t)] # " "
    /\ \E a, b \in 0..Len(body) :
         /\ a + Len(t) + b = Len(body)
         /\ Blank(SubSeq(body, 1, a))
         /\ SubSeq(body, a + 1, a + Len(t)) = t
         /\ Blank(SubSeq(body, a + Len(t) + 1, Len(body)))
Redeemable(r) == r.k = "ok" /\ r.status = 200 /\ ~Blank(r.json)
RedeemStoresOnly200 ==
    /\ [][(ui.pc = "reg_otp" /\ cmds'[ui.c].reply # NoResp)
          => LET r == cmds'[ui.c].reply
             IN  /\ cmds'[ui.c].outcomes = <<>>
                 /\ ui'.pc = "show_dialog"
                 /\ ui'.c = ui.c
                 /\ IF Redeemable(r)
                    THEN /\ ui'.tmp.type = "info"
                         /\ config'.t = "str"
                         /\ Trimmed(config'.v, r.json)
                    ELSE /\ ui'.tmp.type = "error"
                         /\ config' = config]_vars
    /\ [][(ui.pc = "show_dialog" /\ ui' # ui)
          => /\ ui' = UiIdle
             /\ config' = config
             /\ cmds'[ui.c].outcomes = <<ui.tmp>>]_vars
    /\ [](\A c \in 1..Len(cmds) :
            (cmds[c].kind = "register" /\ cmds[c].reply # NoResp /\ ui.c # c)
            => /\ Len(cmds[c].outcomes) = 1
               /\ cmds[c].outcomes[1].type =
                    IF Redeemable(cmds[c].reply) THEN "info" ELSE "error")
\* a 200 reply of blanks only was reported as a failure, the credential kept
BlankBodyRejected ==
    /\ Len(cmds) = 1
    /\ cmds[1].reply.k = "ok"
    /\ cmds[1].reply.status = 200
    /\ cmds[1].reply.json = <<" ", " ">>
    /\ ui = UiIdle
    /\ uiStack = <<>>
    /\ Len(cmds[1].outcomes) = 1
    /\ cmds[1].outcomes[1].type = "error"
    /\ config = Str(<<"9">>)

\* C16: the phase handler invoked with a string payload sets the phase to
\* that string and returns without a request; invoked with any other payload
\* it leaves the phase, issues the request of the phase endpoint, and on its
\* reply sets the phase to the value fetched and returns without another
\* request.
PhaseFromPayloadOrFetch ==
    /\ [][(ph.pc = "invoked" /\ ph' # ph)
          => IF ph.resp \in PhaseJson
             THEN current_phase' = ph.resp /\ ph'.pc = "idle"
             ELSE current_phase' = current_phase /\ ph'.pc = "await_phase"]_vars
    /\ [][(ph.pc = "await_phase" /\ ph' # ph)
          => /\ ph'.pc = "idle"
             /\ (ph.resp.k = "ok" => current_phase' = ph.resp.json)]_vars
PhaseRefetching ==
    /\ ph.pc = "await_phase"
    /\ ph.resp = Ok(200, Str("InProgress"))
    /\ current_phase = Str("Lobby")

\* C17: the identity handler, having taken name and tag from an event,
\* issues the request of the identity endpoint exactly when the event's name
\* or tag is missing; a 200 reply to it gives name and tag, any other reply
\* or a raising request leaves them; an event with both goes straight on to
\* the region request.
Partial(data) == data.gameName \in {PyNone, Str(<<>>)} \/ data.tagLine \in {PyNone, Str(<<>>)}
RefetchOnPartial ==
    /\ [][(sm.pc = "set_tag" /\ sm' # sm)
          => /\ summoner_tag' = sm.resp.tagLine
             /\ sm'.pc = IF Partial(sm.resp) THEN "await_refetch" ELSE "await_region"]_vars
    /\ [][(sm.pc = "await_refetch" /\ sm' # sm)
          => IF sm.resp.k = "ok" /\ sm.resp.status = 200
             THEN /\ sm'.pc = "set_tag2"
                  /\ sm'.resp = sm.resp.json
                  /\ summoner_name' = sm.resp.json.gameName
             ELSE /\ sm'.pc = "await_region"
                  /\ UNCHANGED <<summoner_name, summoner_tag>>]_vars
    /\ [][(sm.pc = "set_tag2" /\ sm' # sm)
          => /\ summoner_tag' = sm.resp.tagLine
             /\ summoner_name' = summoner_name
             /\ sm'.pc = "await_region"]_vars
\* a name missing from the event has been taken from the fetched data
RefetchApplied ==
    /\ sm.pc = "set_tag2"
    /\ sm.resp = [gameName |-> Str(NameB), tagLine |-> Str(TagB)]
    /\ summoner_name = Str(NameB)
    /\ summoner_tag = PyNone

\* C18: no failure of a local request made inside the ready handler (the
\* phase fetch, the identity fetch and its region request), the identity
\* handler (the re-fetch and the region request) or the phase handler escapes
\* the handler: whenever a handler awaiting a request that fails takes its
\* step, it is at the position that follows the request in the code, the
\* failed phase fetch leaving the phase None, and a handler is never left at
\* a position it cannot return from.
Failed(h, pc) == h.pc = pc /\ h.resp = Exc
FailuresContained ==
    [][/\ (Failed(hs, "await_phase") /\ hs' # hs)
            => (hs'.pc = "await_summoner" /\ current_phase' = PyNone)
       /\ (Failed(hs, "await_summoner") /\ hs' # hs) => hs'.pc = "done"
       /\ (Failed(hs, "await_region") /\ hs' # hs) => hs'.pc = "done"
       /\ (Failed(sm, "await_refetch") /\ sm' # sm) => sm'.pc = "await_region"
       /\ (Failed(sm, "await_region") /\ sm' # sm) => sm'.pc = "idle"
       /\ (Failed(ph, "await_phase") /\ ph' # ph)
            => (ph'.pc = "idle" /\ current_phase' = PyNone)
       /\ hs'.pc \in {"idle", "invoked", "await_phase", "await_summoner",
                      "set_tag", "await_region", "done"}
       /\ sm'.pc \in {"idle", "invoked", "set_tag", "await_refetch", "set_tag2",
                      "await_region"}
       /\ ph'.pc \in {"idle", "invoked", "await_phase"}]_vars

\* the initial phase fetch has failed (the phase is still None, which no
\* reply carries) and the ready handler is awaiting its identity fetch,
\* which fails as well
HandshakeFailuresCaught ==
    /\ Failed(hs, "await_summoner")
    /\ current_phase = PyNone
    /\ is_ready

\* C19: lobby-join jobs start in the order in which their commands were
\* scheduled.  The menu handles one command at a time, so command a was
\* scheduled before command b exactly when a < b; a command is on its way
\* while its schedule_join or join_lobby callback is queued in the Tk loop or
\* its task has not yet issued the lobby-list request.  Whenever a later
\* command has issued its lobby-list request, no earlier one is still on its
\* way.
OnItsWay(c) ==
    \/ \E i \in 1..Len(tkQueue) :
         tkQueue[i].c = c /\ tkQueue[i].f \in {"schedule_join", "join_lobby"}
    \/ \E i \in 1..Len(jobs) : jobs[i].c = c /\ jobs[i].pc = "start"
JoinsStartInOrder ==
    \A a \in 1..Len(cmds), b \in 1..Len(cmds) :
        (a < b /\ cmds[b].gets > 0) => ~OnItsWay(a)

\* two join jobs are in the connection's event loop at once, the first has
\* issued its lobby-list request and the second has not yet
SecondJobWaiting ==
    /\ Len(jobs) = 2
    /\ jobs[1].c = 1 /\ jobs[1].pc # "start" /\ cmds[1].gets = 1
    /\ jobs[2].c = 2 /\ jobs[2].pc = "start" /\ cmds[2].gets = 0

\* C20: a register or join command whose menu entry fires while the
\* connection is not live (never established, exhausted, or lost) fails
\* fast: it goes straight to its not-ready error dialog, which is its one
\* outcome, and it issues no remote backend request and no local endpoint
\* request; exhaustion is reported by the connection loop alone, at most once.
NotReadyDialog(d) == d.type = "error" /\ d.what \in {"Not Ready", "Client not ready"}
FailFastWhenNotLive ==
    /\ exhaustReports <= 1
    /\ \A c \in 1..Len(cmds) :
         (cmds[c].kind \in {"register", "join"} /\ ~cmds[c].live)
           => /\ IF ui.c = c
                 THEN ui.pc = "show_dialog" /\ NotReadyDialog(ui.tmp) /\ cmds[c].outcomes = <<>>
                 ELSE Len(cmds[c].outcomes) = 1 /\ NotReadyDialog(cmds[c].outcomes[1])
              /\ cmds[c].remote = 0
              /\ cmds[c].gets = 0
              /\ cmds[c].posts = 0

\* C21: after the transport of an established connection has dropped, the
\* connection loop either starts a fresh connect cycle or reports a terminal
\* error: it is never finished, the connection lost, with no report made.
NoSilentStop == ~(supPc = "done" /\ conn = "closed" /\ exhaustReports = 0)

\* C22: each connection attempt of the retry loop uses a freshly constructed
\* handle: no two calls of connector.start() are made on the same handle, so
\* none that a failed attempt used is used again.
FreshHandlePerAttempt ==
    \A i \in 1..Len(started), j \in 1..Len(started) :
        i # j => started[i] # started[j]

\* C23: local endpoint calls are not retried.  For each join command at most
\* one lobby-list GET and one join POST are issued and at most one outcome is
\* reported, a command with a reported outcome has no task left, and the step
\* of a task whose GET raised, or whose POST raised or was answered with
\* another status than 200, posts exactly one error dialog for the command,
\* ends the task and issues no further call.
DialogsQueued(q, c) ==
    Cardinality({k \in 1..Len(q) : q[k].f = "dialog" /\ q[k].c = c})
\* the calls of show_dialog made for command c by callbacks the Tk loop took
DialogsOpening(st, c) ==
    Cardinality({k \in 1..Len(st) : st[k].f = "dialog" /\ st[k].c = c})
ReportsOf(q, st, cs, c) == Len(cs[c].outcomes) + DialogsQueued(q, c) + DialogsOpening(st, c)
LocalCallFailed(j) ==
    \/ j.pc = "await_games" /\ j.resp = Exc
    \/ j.pc = "await_join" /\ (j.join = Exc \/ j.join.status # 200)
NoSilentRetry ==
    /\ [](\A c \in 1..Len(cmds) :
            /\ cmds[c].gets <= 1
            /\ cmds[c].posts <= 1
            /\ ReportsOf(tkQueue, uiStack, cmds, c) <= 1
            /\ ReportsOf(tkQueue, uiStack, cmds, c) = 1 => JobOf(jobs, c).pc = "gone")
    /\ [][\A c \in 1..Len(cmds) :
            (LocalCallFailed(JobOf(jobs, c)) /\ JobOf(jobs', c) # JobOf(jobs, c))
            => /\ JobOf(jobs', c).pc = "gone"
               /\ ReportsOf(tkQueue, uiStack, cmds, c) = 0
               /\ ReportsOf(tkQueue', uiStack', cmds', c) = 1
               /\ FailureKnown(tkQueue', uiStack', cmds', c)
               /\ cmds'[c].gets = cmds[c].gets
               /\ cmds'[c].posts = cmds[c].posts]_vars

\* C24: the steps of a lobby join (lobby-list GET, matching, join POST) are
\* taken by the task on the connection's running event loop and by nothing
\* else; such a step writes no Session State field and no UI state (no
\* dialog shown, the menu command's position and the stored credential
\* untouched); a step that ends the task posts one dialog callback for the
\* command to the Tk loop, any other step posts none; and the outcome of a
\* command whose lobby-list request was issued is shown only by a call of
\* show_dialog that the Tk loop made by taking a posted dialog.
Outcomes(cs) == [c \in 1..Len(cs) |-> cs[c].outcomes]
TaskStep(c) == JobOf(jobs, c).pc # "gone" /\ JobOf(jobs', c) # JobOf(jobs, c)
IsDialogFor(e, c) == e.f = "dialog" /\ e.c = c /\ e.d.type \in {"info", "error"}
JoinStaysInItsContext ==
    [][\A c \in 1..Len(cmds) :
         /\ TaskStep(c)
              => /\ conn = "live"
                 /\ <<is_ready, current_phase, summoner_name, summoner_tag, region>>'
                      = <<is_ready, current_phase, summoner_name, summoner_tag, region>>
                 /\ Outcomes(cmds') = Outcomes(cmds)
                 /\ ui' = ui
                 /\ uiStack' = uiStack
                 /\ config' = config
                 /\ IF JobOf(jobs', c).pc = "gone"
                    THEN /\ Len(tkQueue') = Len(tkQueue) + 1
                         /\ SubSeq(tkQueue', 1, Len(tkQueue)) = tkQueue
                         /\ IsDialogFor(tkQueue'[Len(tkQueue')], c)
                    ELSE tkQueue' = tkQueue
         /\ (Len(cmds') = Len(cmds)
             /\ (cmds'[c].gets # cmds[c].gets \/ cmds'[c].posts # cmds[c].posts))
              => TaskStep(c)
         /\ (Len(cmds') = Len(cmds) /\ cmds[c].gets > 0
             /\ cmds'[c].outcomes # cmds[c].outcomes)
              => /\ ~TaskStep(c)
                 /\ DialogsOpening(uiStack, c) = 1
                 /\ DialogsOpening(uiStack', c) = 0
                 /\ Len(cmds'[c].outcomes) = Len(cmds[c].outcomes) + 1
         /\ (Len(cmds') = Len(cmds) /\ DialogsOpening(uiStack', c) # DialogsOpening(uiStack, c))
              => /\ ~TaskStep(c)
                 /\ DialogsQueued(tkQueue, c) + DialogsOpening(uiStack, c) + Len(cmds[c].outcomes)
                      = DialogsQueued(tkQueue', c) + DialogsOpening(uiStack', c)
                          + Len(cmds'[c].outcomes)]_vars

\* C25: phase events take effect in arrival order.  When the handling of
\* phase events comes to rest, the phase is the one the last event that
\* arrived determines: the payload of a string event delivered while an
\* earlier invocation awaited its re-fetch, else the string payload of the
\* invocation's own event, else the value its re-fetch returned (None when
\* the re-fetch failed).
PhaseFollowsLastEvent ==
    [][(ph.pc # "idle" /\ ph'.pc = "idle")
       => current_phase' =
            IF ph.later # PyNone THEN ph.later
            ELSE IF ph.pc = "invoked" THEN ph.resp
            ELSE IF ph.resp.k = "ok" THEN ph.resp.json
            ELSE PyNone]_vars

\* C26: the guards of the two commands.  A register command fired while
\* ready is false, and a join command fired while ready is false or the
\* phase is absent, goes in the step that fires it to its not-ready error
\* dialog, and no other command does; that step and the one that shows the
\* dialog change nothing else, and the command has ended with that dialog as
\* its one outcome.  A command rejected so has issued no remote request, has
\* had no password asked, and has no lobby join scheduled or running; so a
\* command that issued a request, or scheduled a join, fired with its guard
\* satisfied.
GuardFailsFor(kind) ==
    \/ kind = "register" /\ is_ready = FALSE
    \/ kind = "join" /\ (is_ready = FALSE \/ current_phase = PyNone)
Rejected(cmd) == cmd.outcomes # <<>> /\ NotReadyDialog(cmd.outcomes[1])
Rejecting(u) == u.pc = "show_dialog" /\ NotReadyDialog(u.tmp)
GuardsHold ==
    /\ [][(Len(cmds') = Len(cmds) + 1 /\ cmds'[Len(cmds')].kind \in {"register", "join"})
          => /\ GuardFailsFor(cmds'[Len(cmds')].kind) <=> Rejecting(ui')
             /\ ui'.c = Len(cmds')
             /\ cmds'[Len(cmds')].outcomes = <<>>
             /\ SubSeq(cmds', 1, Len(cmds)) = cmds
             /\ config' = config
             /\ tkQueue' = tkQueue
             /\ jobs' = jobs
             /\ <<is_ready, current_phase, summoner_name, summoner_tag, region>>'
                  = <<is_ready, current_phase, summoner_name, summoner_tag, region>>]_vars
    /\ [][(Rejecting(ui) /\ ui' # ui)
          => /\ ui' = UiIdle
             /\ cmds' = [cmds EXCEPT ![ui.c].outcomes = <<ui.tmp>>]
             /\ config' = config
             /\ tkQueue' = tkQueue
             /\ jobs' = jobs
             /\ <<is_ready, current_phase, summoner_name, summoner_tag, region>>'
                  = <<is_ready, current_phase, summoner_name, summoner_tag, region>>]_vars
    /\ [](\A c \in 1..Len(cmds) :
            (Rejected(cmds[c]) \/ (ui.c = c /\ Rejecting(ui)))
              => /\ Rejected(cmds[c]) => (Len(cmds[c].outcomes) = 1 /\ ui.c # c)
                 /\ cmds[c].remote = 0
                 /\ cmds[c].pwd = FALSE
                 /\ cmds[c].gets = 0
                 /\ cmds[c].posts = 0
                 /\ \A k \in 1..Len(tkQueue) : tkQueue[k].c # c
                 /\ \A k \in 1..Len(uiStack) : uiStack[k].f = "dialog" => uiStack[k].c # c
                 /\ JobOf(jobs, c).pc = "gone")

\* a join command fired on a ready client whose phase is absent has been
\* rejected
JoinRejectedWithoutPhase ==
    /\ Len(cmds) = 1
    /\ cmds[1].kind = "join"
    /\ Rejected(cmds[1])
    /\ ui = UiIdle
    /\ is_ready
    /\ current_phase = PyNone
    /\ ph = Idle
    /\ hs.pc = "done"

\* C27: the phase handler modifies the phase only.  Every step of it, from
\* the delivery of the event to its return, leaves ready, name, tag and
\* region as they are, and the step that takes a failed re-fetch makes the
\* phase absent, whatever it was.
PhaseHandlerWritesPhaseOnly ==
    [][(ph' # ph)
       => /\ is_ready' = is_ready
          /\ summoner_name' = summoner_name
          /\ summoner_tag' = summoner_tag
          /\ region' = region
          /\ (ph.pc = "await_phase" /\ ph.resp = Exc) => current_phase' = PyNone]_vars

\* with a phase, an identity and a region known, the handler has issued its
\* re-fetch, which fails
PhaseRefetchFailing ==
    /\ ph.pc = "await_phase"
    /\ ph.resp = Exc
    /\ current_phase = Str("Lobby")
    /\ summoner_name = Str(NameA)
    /\ summoner_tag = Str(TagA)
    /\ region # PyNone

\* C28: the identity handler invoked with an event whose data is None or an
\* empty object returns at once: ready, phase, name, tag and region are left
\* as they are and no request is awaited.  The step of an identity update
\* that takes a region reply which raised or carries another status than 200
\* leaves the region as it was and returns.
NoData(data) == data = PyNone \/ data = EmptyDict
IdentityHandlerLeavesState ==
    /\ [][(sm.pc = "invoked" /\ NoData(sm.resp) /\ sm' # sm)
          => /\ sm'.pc = "idle"
             /\ is_ready' = is_ready
             /\ current_phase' = current_phase
             /\ summoner_name' = summoner_name
             /\ summoner_tag' = summoner_tag
             /\ region' = region]_vars
    /\ [][(sm.pc = "await_region" /\ sm' # sm
           /\ (sm.resp = Exc \/ sm.resp.status # 200))
          => /\ region' = region
             /\ sm'.pc = "idle"]_vars

\* an identity update has written the name and tag of its event and its
\* region request has failed, a region being known
RegionFetchFailing ==
    /\ sm.pc = "await_region"
    /\ sm.resp = Exc
    /\ region = Str(<<"E", "U">>)
    /\ summoner_name = Str(NameB)
    /\ summoner_tag = Str(TagB)

============================================================================
